---- MODULE Spec2Model ----
(***************************************************************************)
(* State-machine model of the Redis MCP server: the stdio transport loop   *)
(* (FinalMCPServer.start), the JSON-RPC dispatcher (handleRequest), the    *)
(* tool wrappers, the data / key operations and the connection manager.    *)
(*                                                                         *)
(* Scheduling.  Node runs one macrotask at a time.  An async function runs *)
(* synchronously up to an await on real I/O (a store command, connect,     *)
(* quit); awaits on already settled promises are resumed from the          *)
(* microtask queue before the next macrotask.  One model action is         *)
(* therefore one macrotask: the delivery of a stdin data event, the        *)
(* arrival of a store reply, or the exit timer, each run up to the next    *)
(* I/O await of the handler concerned.  The stdin 'data' listener is an    *)
(* async function that the emitter does not await, so several handler      *)
(* invocations can be suspended at the same time.                          *)
(*                                                                         *)
(* Store.  All commands of the process travel over one connection and are  *)
(* executed by the store in the order they are issued; a command takes     *)
(* effect when it is issued and its reply is consumed by the macrotask     *)
(* that resumes the handler.                                               *)
(***************************************************************************)
EXTENDS Integers, Sequences, FiniteSets, TLC

\* ---------------------------------------------------------------- bounds
\* number of input lines read in a run, spread over any number of stdin
\* data events
MaxRequests == 3
\* the same for the runs that range over the environment (permission
\* flags, store outages)
MaxPermRequests == 2
\* number of times the store changes between reachable and unreachable
MaxOutages == 1

\* the most runs of the health check's interval callback in a run
MaxTicks == 1

\* the most connections that break in a run with health checks
MaxBreaks == 2

\* ------------------------------------------------------------- constants
MAX_LOGS == 1000

\* the largest limit of listKeys and of get_operation_logs
MaxKeysLimit == 10000

MaxLogsLimit == 1000

\* JavaScript's undefined (an absent property) and null
Undef == "<undefined>"
Null == "<null>"

\* ------------------------------------------------------ permission flags
FlagNames == {"ALLOW_INSERT", "ALLOW_UPDATE", "ALLOW_DELETE", "ALLOW_CREATE", "ALLOW_DROP"}

\* process.env.ALLOW_X !== 'false', for an environment that sets the
\* variables of the set off to 'false'
EnvFlags(off) == [f \in FlagNames |-> f \notin off]

\* ---------------------------------------------------------- tools/list
AlwaysTools == <<"get_data", "list_keys", "exists_key", "get_key_info", "get_redis_info", "get_database_stats", "get_memory_info", "test_connection", "get_operation_logs", "check_permissions">>

TtlTools == <<"set_ttl", "remove_ttl">>

\* if (flag) tools.push({name: ...})
PushIf(cond, tool) == IF cond THEN <<tool>> ELSE <<>>

\* seeded fault: rename_key listed when either flag is set
RenameListedWrong(allow) == allow["ALLOW_CREATE"] \/ allow["ALLOW_DROP"]

\* the condition under which tools/list pushes rename_key
RenameListed(allow) == allow["ALLOW_CREATE"] /\ allow["ALLOW_DROP"]

\* the names of the tools array built by the tools/list branch, in order
ToolsList(allow) ==
    AlwaysTools
    \o PushIf(allow["ALLOW_INSERT"], "set_data")
    \o PushIf(allow["ALLOW_UPDATE"], "update_data")
    \o PushIf(allow["ALLOW_DELETE"], "delete_data")
    \o PushIf(allow["ALLOW_CREATE"], "create_key")
    \o PushIf(allow["ALLOW_DROP"], "drop_key")
    \o PushIf(RenameListed(allow), "rename_key")
    \o TtlTools

\* --------------------------------------------------------- error codes
\* Messages are sequences of string pieces (a fixed prefix, a client
\* supplied string, ...).  String.prototype.includes is decided piece by
\* piece: Pieces(needle) lists the pieces of this model that contain the
\* needle; no needle can straddle two pieces of a message built here,
\* because every fixed prefix ends in ": " or "'" and no needle contains
\* either.
Pieces(needle) ==
    CASE needle = "Server not initialized" ->
            {"Server not initialized", "x Server not initialized x"}
      [] needle = "Unknown method" ->
            {"Unknown method: ", "Unknown method", "x Unknown method x"}
      [] needle = "Unsupported JSON-RPC version" ->
            {"Unsupported JSON-RPC version"}
      [] OTHER -> {}

Includes(msg, needle) == \E i \in 1..Len(msg) : msg[i] \in Pieces(needle)

\* the error code selection of handleRequest's outer catch
ErrorCode(msg) ==
    IF Includes(msg, "Server not initialized") THEN -32002
    ELSE IF Includes(msg, "Unknown method") THEN -32601
    ELSE IF Includes(msg, "Unsupported JSON-RPC version") THEN -32600
    ELSE -32603

\* ------------------------------------------------------------ the store
\* The store maps every key to a cell; an absent key is the cell that the
\* store's replies describe (TYPE none, TTL -2, GET null).  A string value
\* s is kept as the one-element sequence <<s>>, a list as the sequence of
\* its elements from head to tail.  ttl is the store's reply to TTL: -1 for
\* a key without expiry, else the seconds left rounded to the nearest
\* second (0 in the last half second before the key expires).
Absent == [type |-> "none", val |-> <<>>, ttl |-> -2]

StrCell(v, ttl) == [type |-> "string", val |-> <<v>>, ttl |-> ttl]

\* a store command as the client methods of the operations issue it
Cmd(op, key) == [op |-> op, key |-> key, val |-> Undef, ttl |-> 0, key2 |-> Undef, items |-> <<>>]

CmdSet(key, v) == [Cmd("set", key) EXCEPT !.val = v]

CmdSetEx(key, ttl, v) == [Cmd("setEx", key) EXCEPT !.val = v, !.ttl = ttl]

CmdExpire(key, ttl) == [Cmd("expire", key) EXCEPT !.ttl = ttl]

CmdRename(key, key2) == [Cmd("rename", key) EXCEPT !.key2 = key2]

\* client.lpush(key, ...items)
CmdLpush(key, items) == [Cmd("lpush", key) EXCEPT !.items = items]

\* a reply: err is the rejection's message (<<>> when the command was
\* fulfilled), n an integer reply, s a string reply
Reply(n, s) == [err |-> <<>>, n |-> n, s |-> s, items |-> <<>>]

Rejected(msg) == [err |-> msg, n |-> 0, s |-> Null, items |-> <<>>]

NoReply == Reply(0, "<pending>")

Has(st, k) == st[k].type # "none"

\* s from its last element to its first
Reverse(s) == [i \in 1..Len(s) |-> s[Len(s) + 1 - i]]

\* LPUSH inserts the elements one after the other at the head of the list
Pushed(cell, items) ==
    IF cell.type = "none" THEN [type |-> "list", val |-> Reverse(items), ttl |-> -1]
    ELSE [cell EXCEPT !.val = Reverse(items) \o @]

\* the field-value pairs of flattened entries
Pairs(flat) == [i \in 1..(Len(flat) \div 2) |-> <<flat[2 * i - 1], flat[2 * i]>>]

\* HSET sets the fields of the hash, the other fields stay
HashSet(cell, flat) ==
    [type |-> "hash",
     val |-> SelectSeq(cell.val, LAMBDA p : \A j \in 1..Len(Pairs(flat)) : Pairs(flat)[j][1] # p[1]) \o Pairs(flat),
     ttl |-> IF cell.type = "none" THEN -1 ELSE cell.ttl]

WrongType == Rejected(<<"WRONGTYPE Operation against a key holding the wrong kind of value">>)

\* the store's reply to LPUSH with a key and no element
NoElements == Rejected(<<"ERR wrong number of arguments for 'lpush' command">>)

\* the order in which KEYS returns the keys of the store
KeyOrder == <<"k1", "k2">>

\* a glob pattern without metacharacters matches the key it spells, '*'
\* matches every key
Matches(pattern, k) == pattern = "*" \/ pattern = k

\* the reply of KEYS pattern
Matching(st, pattern) == SelectSeq(KeyOrder, LAMBDA k : Has(st, k) /\ Matches(pattern, k))

\* the commands of one Promise.all round over the keys of a page, sent in
\* one macrotask and answered together: TYPE of each key, TTL of each key
CmdEach(op, keys) == [Cmd(op, Undef) EXCEPT !.items = keys]

\* the effect of a command on the store
ExecStore(st, c) ==
    CASE c.op = "set" -> [st EXCEPT ![c.key] = StrCell(c.val, -1)]
      [] c.op = "setEx" -> [st EXCEPT ![c.key] = StrCell(c.val, c.ttl)]
      [] c.op = "del" -> [st EXCEPT ![c.key] = Absent]
      [] c.op = "expire" ->
            IF Has(st, c.key) THEN [st EXCEPT ![c.key].ttl = c.ttl] ELSE st
      [] c.op = "persist" ->
            IF Has(st, c.key) THEN [st EXCEPT ![c.key].ttl = -1] ELSE st
      [] c.op = "rename" ->
            IF Has(st, c.key) /\ c.key # c.key2
            THEN [st EXCEPT ![c.key2] = st[c.key], ![c.key] = Absent]
            ELSE st
      [] c.op = "lpush" ->
            IF st[c.key].type \in {"none", "list"} /\ c.items # <<>>
            THEN [st EXCEPT ![c.key] = Pushed(@, c.items)]
            ELSE st
      [] c.op = "hset" ->
            IF st[c.key].type \in {"none", "hash"} THEN [st EXCEPT ![c.key] = HashSet(@, c.items)] ELSE st
      [] OTHER -> st

\* the store's reply to a command
ExecReply(st, c) ==
    CASE c.op = "exists" -> Reply(IF Has(st, c.key) THEN 1 ELSE 0, Null)
      [] c.op = "type" -> Reply(0, st[c.key].type)
      [] c.op = "ttl" -> Reply(st[c.key].ttl, Null)
      [] c.op = "get" ->
            Reply(0, IF st[c.key].type = "string" THEN st[c.key].val[1] ELSE Null)
      [] c.op \in {"set", "setEx"} -> Reply(0, "OK")
      [] c.op = "del" -> Reply(IF Has(st, c.key) THEN 1 ELSE 0, Null)
      [] c.op = "expire" -> Reply(IF Has(st, c.key) THEN 1 ELSE 0, Null)
      [] c.op = "persist" ->
            Reply(IF Has(st, c.key) /\ st[c.key].ttl # -1 THEN 1 ELSE 0, Null)
      [] c.op = "rename" ->
            IF Has(st, c.key) THEN Reply(0, "OK") ELSE Rejected(<<"ERR no such key">>)
      [] c.op = "ping" -> Reply(0, "PONG")
      [] c.op = "lpush" ->
            IF c.items = <<>> THEN NoElements
            ELSE IF st[c.key].type \in {"none", "list"}
            THEN Reply(Len(st[c.key].val) + Len(c.items), Null)
            ELSE WrongType
      [] c.op = "hset" ->
            IF st[c.key].type \in {"none", "hash"}
            THEN Reply(Len(HashSet(st[c.key], c.items).val) - Len(st[c.key].val), Null)
            ELSE WrongType
      [] c.op = "llen" ->
            IF st[c.key].type \in {"none", "list"} THEN Reply(Len(st[c.key].val), Null) ELSE WrongType
      [] c.op = "keys" -> [Reply(0, Null) EXCEPT !.items = Matching(st, c.key)]
      [] c.op = "types" -> [Reply(0, Null) EXCEPT !.items = [i \in 1..Len(c.items) |-> st[c.items[i]].type]]
      [] c.op = "ttls" -> [Reply(0, Null) EXCEPT !.items = [i \in 1..Len(c.items) |-> st[c.items[i]].ttl]]
      [] c.op = "strlen" ->
            IF st[c.key].type = "none" THEN Reply(0, Null)
            ELSE IF st[c.key].type = "string" THEN Reply(Len(st[c.key].val[1]), Null)
            ELSE WrongType
      [] c.op = "lrange" ->
            IF st[c.key].type \in {"none", "list"}
            THEN [Reply(0, Null) EXCEPT !.items = st[c.key].val]
            ELSE WrongType
      [] OTHER -> Reply(0, "OK")

\* ------------------------------------------------------------- requests
\* the arguments mapping of a tools/call; an absent property is Undef, an
\* absent or non-positive ttl is 0 (the code tests `ttl && ttl > 0`); a
\* value that is an array is ArrayValue with its elements in items
Args(key, value) ==
    [key |-> key, value |-> value, type |-> Undef, ttl |-> 0, oldKey |-> Undef, newKey |-> Undef, items |-> <<>>, pattern |-> Undef, limit |-> [t |-> "undefined", v |-> 0], offset |-> [t |-> "undefined", v |-> 0]]

\* the values of limit and offset: a number, a value of another type (a
\* string), or Missing for an absent property
Number(v) == [t |-> "number", v |-> v]

NotNumber == [t |-> "string", v |-> 0]

Missing == [t |-> "undefined", v |-> 0]

\* a pattern that is a number
NumberValue == "<number>"

\* the arguments of a list_keys or get_operation_logs
PageArgs(pattern, limit, offset) ==
    [Args(Undef, Undef) EXCEPT !.pattern = pattern, !.limit = limit, !.offset = offset]

ArrayValue == "<array>"

\* a value that is an object has its entries, flattened, in items
ObjectValue == "<object>"

\* the arguments of a set_data of type list with an array value
ListArgs(key, items) == [Args(key, ArrayValue) EXCEPT !.type = "list", !.items = items]

NoArgs == Args(Undef, Undef)

\* the four optional capability keys of params.capabilities; a key's value
\* is Undef when the key is absent, "object" for an object such as {} (the
\* shape the protocol gives a declared capability), or false or Null
CapKeys == {"prompts", "resources", "logging", "roots"}

NoCaps == [k \in CapKeys |-> Undef]

\* JavaScript truthiness of such a value
Truthy(v) == v \notin {Undef, Null, "false"}

\* one input line: valid is FALSE for a line JSON.parse rejects, blank is
\* TRUE for a line that is empty once trimmed; id is <<>> for a request
\* without id and is stamped when the line is read; caps and pv are
\* params.capabilities and params.protocolVersion of an initialize; part
\* tells whether the text is the whole line or a piece of it
Line(jsonrpc, hasId, method, name, args) ==
    [valid |-> TRUE, jsonrpc |-> jsonrpc, hasId |-> hasId, id |-> <<>>, method |-> method, name |-> name, args |-> args, caps |-> NoCaps, blank |-> FALSE, pv |-> Undef, part |-> "whole"]

BadLine == [Line(Undef, FALSE, Undef, Undef, NoArgs) EXCEPT !.valid = FALSE]

\* a line of white space only
BlankLine == [BadLine EXCEPT !.blank = TRUE]

Rpc(method) == Line("2.0", TRUE, method, Undef, NoArgs)

\* the text of request line l cut in two where a read ended, part "head"
\* before the cut and "tail" after it: what the listener finds in the chunk
\* of one data event.  Neither piece of a JSON object's text is a JSON
\* text, so JSON.parse throws on it.
Piece(l, part) == [l EXCEPT !.part = part, !.valid = FALSE]

Call(name, args) == Line("2.0", TRUE, "tools/call", name, args)

\* `!key || typeof key !== 'string'` for a key that is a string or absent
BadKey(k) == k = Undef \/ k = ""

\* `value === undefined || value === null`
NoValue(v) == v = Undef \/ v = Null

\* --------------------------------------------------------- process state
\* The mutable state a macrotask works on, as one record: the server
\* object, the connection manager, the audit log, stdout and the store.
\*   client       the manager's this.client (0 is null, else a handle)
\*   open         the handles whose connection to the store is open
\*   pending      the handles whose connect() has not settled yet
\*   made         the number of clients created so far
\*   waitq        the handlers awaiting the reply of a store command, in
\*                the order the commands were issued
\*   proc         "running", "exiting" (exit timer armed) or "exited"
\*   launcher     the start-server.js process that spawned the server:
\*                status "running" or "exited", spawned the number of
\*                spawn() calls it has made, childCode the exit code of the
\*                server process, seen whether its 'exit' listener has
\*                run, code its own exit code
VARIABLES allow, initialized, client, isConnected, open, pending, made, storeUp, outages, store, events, hs, waitq, stdout, operationLogs, proc, launcher

vars == <<allow, initialized, client, isConnected, open, pending, made, storeUp, outages, store, events, hs, waitq, stdout, operationLogs, proc, launcher>>

G == [allow |-> allow, initialized |-> initialized, client |-> client, isConnected |-> isConnected, open |-> open, pending |-> pending, made |-> made, storeUp |-> storeUp, store |-> store, waitq |-> waitq, stdout |-> stdout, operationLogs |-> operationLogs, proc |-> proc]

\* a handler invocation of the stdin 'data' listener
\*   e      the data event it serves        lines  data.split('\n')
\*   idx    the line the for loop is at     pc     the await it is suspended at
\*   c      the client handle the running operation holds
\*   reply  the reply of the awaited command
\*   cmd    the awaited command; queued is TRUE while it waits in the
\*          client's offline queue for the handle's connect() to settle
\*   t, n   locals of the running operation (type and ttl read so far)
\*   timer  TRUE for an invocation of the health check's interval callback,
\*          which takes part in the same scheduling and reads no lines
Handler(e, lines) ==
    [e |-> e, lines |-> lines, idx |-> 1, pc |-> "start", c |-> 0, reply |-> NoReply, cmd |-> Cmd("none", Undef), queued |-> FALSE, t |-> Null, n |-> 0, timer |-> FALSE]

Idle == [Handler(0, <<>>) EXCEPT !.pc = "none"]

\* ------------------------------------------------------------ audit log
\* an entry of operationLogs: result is TRUE when the entry's result is not
\* null, error is the message (<<>> for null); rid names the request whose
\* dispatch wrote the entry
Entry(method, result, error, rid) ==
    [method |-> method, result |-> result, error |-> error, rid |-> rid]

\* operationLogs.unshift(logEntry); splice(MAX_LOGS)
Unshift(logs, entry) ==
    IF Len(logs) + 1 > MAX_LOGS THEN SubSeq(<<entry>> \o logs, 1, MAX_LOGS) ELSE <<entry>> \o logs

logRequest(g, method, result, error, rid) ==
    [g EXCEPT !.operationLogs = Unshift(@, Entry(method, result, error, rid))]

\* ------------------------------------------------------------ responses
\* the result of a dispatch, reduced to what the claims read
Result(kind) ==
    [kind |-> kind, names |-> <<>>, key |-> Undef, flag |-> FALSE, type |-> Null, value |-> Null, ttl |-> Null, n |-> 0, wrapped |-> FALSE, items |-> <<>>, size |-> 0]

\* a null or undefined result
NullResult == Result("null")

\* a line written to stdout; rid names the request that produced it
Response(rid, id, result) ==
    [rid |-> rid, id |-> id, ok |-> TRUE, code |-> 0, message |-> <<>>, result |-> result]

ErrorResponse(rid, id, code, msg) ==
    [rid |-> rid, id |-> id, ok |-> FALSE, code |-> code, message |-> msg, result |-> NullResult]

\* ttl > 0 ? ttl : (ttl === -1 ? 'persistent' : 'expired')
TtlText(ttl) == IF ttl > 0 THEN "seconds" ELSE IF ttl = -1 THEN "persistent" ELSE "expired"

\* the outcome of running an operation up to its next await or its end
Await(g, h) == [k |-> "await", g |-> g, h |-> h, result |-> NullResult, msg |-> <<>>]

Ok(g, h, result) == [k |-> "ok", g |-> g, h |-> h, result |-> result, msg |-> <<>>]

Err(g, h, msg) == [k |-> "err", g |-> g, h |-> h, result |-> NullResult, msg |-> msg]

Go(g, h) == [k |-> "go", g |-> g, h |-> h, result |-> NullResult, msg |-> <<>>]

\* --------------------------------------------------- connection manager
\* The store client is a collaborator; the model gives it this contract:
\* connect() settles in a later macrotask and fulfils iff the store is
\* reachable then; a command sent through an open handle is executed and
\* answered; a command sent through a handle whose connect() is pending
\* waits in the client's offline queue; a command sent through any other
\* handle is rejected at once.

\* RedisConnectionManager.getClient and createClient, entered at "start"
\* and resumed at "connect" when connect() has settled
getClient(g, h) ==
    IF h.pc = "connect"
    THEN IF g.storeUp
         THEN Go([g EXCEPT !.open = @ \cup {h.c}, !.pending = @ \ {h.c}, !.isConnected = TRUE],
                 [h EXCEPT !.c = g.client, !.pc = "go"])
         ELSE Err([g EXCEPT !.pending = @ \ {h.c}, !.isConnected = FALSE], h,
                  <<"Redis connection failed: ", "connect ECONNREFUSED">>)
    ELSE IF g.client # 0 /\ g.isConnected
         THEN Go(g, [h EXCEPT !.c = g.client, !.pc = "go"])
         ELSE Await([g EXCEPT !.made = @ + 1, !.client = g.made + 1, !.pending = @ \cup {g.made + 1}],
                    [h EXCEPT !.pc = "connect", !.c = g.made + 1])

\* `await client.cmd(...)` inside the try block of an operation whose catch
\* rethrows with prefix: the handler is suspended at pc
Send(g, h, cmd, pc, prefix) ==
    IF h.c \in g.open
    THEN Await([g EXCEPT !.store = ExecStore(@, cmd), !.waitq = Append(@, h.e),
                         !.open = IF cmd.op = "quit" THEN @ \ {h.c} ELSE @],
               [h EXCEPT !.pc = pc, !.cmd = cmd, !.reply = ExecReply(g.store, cmd)])
    ELSE IF h.c \in g.pending
    THEN Await(g, [h EXCEPT !.pc = pc, !.cmd = cmd, !.queued = TRUE])
    ELSE Err(g, h, <<prefix, "The client is closed">>)

\* the first command of an operation, sent once getClient has returned
ThenSend(r, cmd, pc, prefix) == IF r.k = "go" THEN Send(r.g, r.h, cmd, pc, prefix) ELSE r

\* the catch of an operation's try block: the rejection of the awaited
\* command rethrown with the operation's prefix
Caught(g, h, prefix) == Err(g, h, <<prefix>> \o h.reply.err)

\* the catch of a tool wrapper: `throw new Error(prefix + err.message)`
Wrap(prefix, r) == IF r.k = "err" THEN [r EXCEPT !.msg = <<prefix>> \o @] ELSE r

\* -------------------------------------------------------- data operations
\* seeded fault: the absent key reported the way existsKey reports it
NotFoundExpired(key) == [Result("get") EXCEPT !.key = key, !.flag = FALSE, !.ttl = "expired"]

\* { key, value: null, exists: false, type: null, ttl: null }
NotFound(key) == [Result("get") EXCEPT !.key = key, !.flag = FALSE]

\* DataOperations.getData (keys of type string and list)
getData(g, h, a) ==
    LET P == "Failed to get data: " IN
    IF h.pc = "start" /\ BadKey(a.key) THEN Err(g, h, <<"Missing or invalid key parameter">>)
    ELSE IF h.pc \in {"start", "connect"}
    THEN ThenSend(getClient(g, h), Cmd("exists", a.key), "exists", P)
    ELSE IF h.reply.err # <<>> THEN Caught(g, h, P)
    ELSE CASE h.pc = "exists" ->
                IF h.reply.n = 0
                THEN Ok(g, h, NotFound(a.key))
                ELSE Send(g, h, Cmd("type", a.key), "type", P)
           [] h.pc = "type" -> Send(g, [h EXCEPT !.t = h.reply.s], Cmd("ttl", a.key), "ttl", P)
           [] h.pc = "ttl" ->
                IF h.t = "list" THEN Send(g, [h EXCEPT !.n = h.reply.n], Cmd("llen", a.key), "llen", P)
                ELSE Send(g, [h EXCEPT !.n = h.reply.n], Cmd("get", a.key), "get", P)
           [] h.pc = "llen" -> Send(g, h, Cmd("lrange", a.key), "lrange", P)
           [] h.pc = "get" ->
                Ok(g, h, [Result("get") EXCEPT !.key = a.key, !.flag = TRUE, !.type = h.t,
                                                !.value = h.reply.s, !.ttl = TtlText(h.n), !.n = h.n])
           [] h.pc = "lrange" ->
                Ok(g, h, [Result("get") EXCEPT !.key = a.key, !.flag = TRUE, !.type = h.t,
                                                !.value = ArrayValue, !.items = h.reply.items,
                                                !.ttl = TtlText(h.n), !.n = h.n])

\* s.slice(from, to) for from >= 0
Slice(s, from, to) == SubSeq(s, from + 1, IF to < Len(s) THEN to ELSE Len(s))

\* `typeof limit !== 'number' || limit < 1 || limit > max`
BadLimit(limit, max) == limit.t # "number" \/ limit.v < 1 \/ limit.v > max

\* `typeof offset !== 'number' || offset < 0`
BadOffset(offset) == offset.t # "number" \/ offset.v < 0

\* seeded fault: more entries announced when the page ends the list
HasMoreAtEnd(limit, offset, total) == offset + limit <= total

\* hasMore: offset + limit < total
HasMore(limit, offset, total) == offset + limit < total

\* the keyInfo entries { key, type, ttl } of a page, as <<type, ttl text,
\* ttl reply>>
KeyInfo(types, ttls) == [i \in 1..Len(types) |-> <<types[i], TtlText(ttls[i]), ttls[i]>>]

\* the result of listKeys: names the keys of the page, items their
\* annotations, n the total, flag hasMore
Listed(a, total, page, info) ==
    [Result("list") EXCEPT !.names = page, !.items = info, !.n = total,
                           !.flag = HasMore(a.limit.v, a.offset.v, total)]

\* DataOperations.listKeys; a carries pattern, limit and offset as
\* list_keys passes them
listKeys(g, h, a) ==
    LET P == "Failed to list keys: " IN
    IF h.pc = "start" /\ a.pattern = NumberValue THEN Err(g, h, <<"Pattern must be a string">>)
    ELSE IF h.pc = "start" /\ BadLimit(a.limit, MaxKeysLimit) THEN Err(g, h, <<"Limit must be between 1 and 10000">>)
    ELSE IF h.pc = "start" /\ BadOffset(a.offset) THEN Err(g, h, <<"Offset must be >= 0">>)
    ELSE IF h.pc \in {"start", "connect"}
    THEN ThenSend(getClient(g, h), Cmd("keys", a.pattern), "keys", P)
    ELSE IF h.reply.err # <<>> THEN Caught(g, h, P)
    ELSE CASE h.pc = "keys" ->
                IF Slice(h.reply.items, a.offset.v, a.offset.v + a.limit.v) = <<>>
                THEN Ok(g, h, Listed(a, Len(h.reply.items), <<>>, <<>>))
                ELSE Send(g, [h EXCEPT !.n = Len(h.reply.items)],
                          CmdEach("types", Slice(h.reply.items, a.offset.v, a.offset.v + a.limit.v)), "types", P)
           [] h.pc = "types" ->
                Send(g, [h EXCEPT !.t = h.reply.items], CmdEach("ttls", h.cmd.items), "ttls", P)
           [] h.pc = "ttls" ->
                Ok(g, h, Listed(a, h.n, h.cmd.items, KeyInfo(h.t, h.reply.items)))

\* args.type with its default, `type = 'string'`
TypeOf(a) == IF a.type = Undef THEN "string" ELSE a.type

\* the string branch of the type switch: setEx with a ttl, set without
WriteString(g, h, key, value, ttl, P) ==
    IF ttl > 0 THEN Send(g, h, CmdSetEx(key, ttl, value), "write", P)
    ELSE Send(g, h, CmdSet(key, value), "write", P)

\* seeded fault: the permission check left out
DeniedNever(g, flags) == FALSE

\* `if (!ALLOW_X) throw`, the first statement of a mutating operation
\* (`!ALLOW_CREATE || !ALLOW_DROP` for renameKey)
Denied(g, flags) == \E f \in flags : ~g.allow[f]

\* the type switch of setData once getClient has returned
setDataSwitch(r, a, P) ==
    IF r.k # "go" THEN r
    ELSE IF TypeOf(a) = "string" THEN WriteString(r.g, r.h, a.key, a.value, a.ttl, P)
    ELSE IF TypeOf(a) = "list"
    THEN IF a.value = ArrayValue THEN Send(r.g, r.h, Cmd("del", a.key), "del", P)
         ELSE Send(r.g, r.h, CmdLpush(a.key, <<a.value>>), "write", P)
    ELSE Err(r.g, r.h, <<P, "Unsupported data type: ", TypeOf(a)>>)

\* DataOperations.setData (types string, list and unsupported)
setData(g, h, a) ==
    LET P == "Failed to set data: " IN
    IF h.pc = "start" /\ Denied(g, {"ALLOW_INSERT"}) THEN Err(g, h, <<"Insert operations are not allowed">>)
    ELSE IF h.pc = "start" /\ BadKey(a.key) THEN Err(g, h, <<"Missing or invalid key parameter">>)
    ELSE IF h.pc = "start" /\ NoValue(a.value) THEN Err(g, h, <<"Missing value parameter">>)
    ELSE IF h.pc \in {"start", "connect"}
    THEN setDataSwitch(getClient(g, h), a, P)
    ELSE IF h.reply.err # <<>> THEN Caught(g, h, P)
    ELSE IF h.pc = "del"
    THEN Send(g, h, CmdLpush(a.key, IF Len(a.items) > 0 THEN a.items ELSE <<"">>), "write", P)
    ELSE IF h.pc = "write" /\ a.ttl > 0 /\ TypeOf(a) # "string"
    THEN Send(g, h, CmdExpire(a.key, a.ttl), "expire", P)
    ELSE Ok(g, h, [Result("set") EXCEPT !.key = a.key, !.value = a.value, !.items = a.items,
                                        !.type = TypeOf(a), !.n = a.ttl])

\* the elements a write of the value to a list pushes: those of an array,
\* or the value itself
Elements(a) == IF a.value = ArrayValue THEN a.items ELSE <<a.value>>

\* Object.entries(value).flat() for an object or an array
Entries(a) ==
    IF a.value = ObjectValue THEN a.items
    ELSE [i \in 1..(2 * Len(a.items)) |-> IF i % 2 = 1 THEN ToString((i - 1) \div 2) ELSE a.items[i \div 2]]

\* `typeof value === 'object' && value !== null` fails
NotObject(v) == v \notin {ObjectValue, ArrayValue}

\* DataOperations.updateData (keys of type string, list and hash)
updateData(g, h, a) ==
    LET P == "Failed to update data: " IN
    IF h.pc = "start" /\ Denied(g, {"ALLOW_UPDATE"}) THEN Err(g, h, <<"Update operations are not allowed">>)
    ELSE IF h.pc = "start" /\ BadKey(a.key) THEN Err(g, h, <<"Missing or invalid key parameter">>)
    ELSE IF h.pc = "start" /\ NoValue(a.value) THEN Err(g, h, <<"Missing value parameter">>)
    ELSE IF h.pc \in {"start", "connect"}
    THEN ThenSend(getClient(g, h), Cmd("exists", a.key), "exists", P)
    ELSE IF h.reply.err # <<>> THEN Caught(g, h, P)
    ELSE CASE h.pc = "exists" ->
                IF h.reply.n = 0 THEN Err(g, h, <<P, "Key '", a.key, "' does not exist">>)
                ELSE Send(g, h, Cmd("type", a.key), "type", P)
           [] h.pc = "type" ->
                IF h.reply.s = "string"
                THEN WriteString(g, [h EXCEPT !.t = h.reply.s], a.key, a.value, a.ttl, P)
                ELSE IF h.reply.s = "list"
                THEN Send(g, [h EXCEPT !.t = h.reply.s], Cmd("del", a.key), "del", P)
                ELSE IF h.reply.s = "hash"
                THEN Send(g, [h EXCEPT !.t = h.reply.s], Cmd("del", a.key), "hdel", P)
                ELSE Err(g, h, <<P, "Cannot update unsupported data type: ", h.reply.s>>)
           [] h.pc = "hdel" ->
                IF NotObject(a.value) THEN Err(g, h, <<P, "Hash value must be an object">>)
                ELSE IF Entries(a) # <<>> THEN Send(g, h, [Cmd("hset", a.key) EXCEPT !.items = Entries(a)], "write", P)
                ELSE IF a.ttl > 0 THEN Send(g, h, CmdExpire(a.key, a.ttl), "expire", P)
                ELSE Ok(g, h, [Result("update") EXCEPT !.key = a.key, !.value = a.value, !.items = a.items, !.type = h.t])
           [] h.pc = "del" ->
                IF Elements(a) # <<>> THEN Send(g, h, CmdLpush(a.key, Elements(a)), "write", P)
                ELSE IF a.ttl > 0 THEN Send(g, h, CmdExpire(a.key, a.ttl), "expire", P)
                ELSE Ok(g, h, [Result("update") EXCEPT !.key = a.key, !.value = a.value, !.items = a.items, !.type = h.t])
           [] h.pc = "write" ->
                IF a.ttl > 0 THEN Send(g, h, CmdExpire(a.key, a.ttl), "expire", P)
                ELSE Ok(g, h, [Result("update") EXCEPT !.key = a.key, !.value = a.value, !.items = a.items, !.type = h.t])
           [] h.pc = "expire" ->
                Ok(g, h, [Result("update") EXCEPT !.key = a.key, !.value = a.value, !.items = a.items, !.type = h.t, !.n = a.ttl])

\* seeded fault: deleted false whatever DEL replied
DeletedNever(n) == FALSE

\* `deleted: result > 0`
Deleted(n) == n > 0

\* DataOperations.deleteData
deleteData(g, h, a) ==
    LET P == "Failed to delete data: " IN
    IF h.pc = "start" /\ Denied(g, {"ALLOW_DELETE"}) THEN Err(g, h, <<"Delete operations are not allowed">>)
    ELSE IF h.pc = "start" /\ BadKey(a.key) THEN Err(g, h, <<"Missing or invalid key parameter">>)
    ELSE IF h.pc \in {"start", "connect"}
    THEN ThenSend(getClient(g, h), Cmd("exists", a.key), "exists", P)
    ELSE IF h.reply.err # <<>> THEN Caught(g, h, P)
    ELSE CASE h.pc = "exists" ->
                IF h.reply.n = 0
                THEN Ok(g, h, [Result("delete") EXCEPT !.key = a.key, !.flag = FALSE])
                ELSE Send(g, h, Cmd("del", a.key), "del", P)
           [] h.pc = "del" ->
                Ok(g, h, [Result("delete") EXCEPT !.key = a.key, !.flag = Deleted(h.reply.n), !.n = h.reply.n])

\* --------------------------------------------------------- key operations
\* params.value with createKey's default, `value = ''`
ValueOrEmpty(a) == IF a.value = Undef THEN "" ELSE a.value

\* the elements createKey pushes to a list: those of an array, or the
\* value itself, '' by default
CreateElements(a) == IF a.value = ArrayValue THEN a.items ELSE <<ValueOrEmpty(a)>>

\* KeyOperations.createKey (types string, list and unsupported)
createKey(g, h, a) ==
    LET P == "Failed to create key: " IN
    IF h.pc = "start" /\ Denied(g, {"ALLOW_CREATE"}) THEN Err(g, h, <<"Create key operations are not allowed">>)
    ELSE IF h.pc = "start" /\ BadKey(a.key) THEN Err(g, h, <<"Missing or invalid key parameter">>)
    ELSE IF h.pc \in {"start", "connect"}
    THEN ThenSend(getClient(g, h), Cmd("exists", a.key), "exists", P)
    ELSE IF h.reply.err # <<>> THEN Caught(g, h, P)
    ELSE CASE h.pc = "exists" ->
                IF h.reply.n # 0 THEN Err(g, h, <<P, "Key '", a.key, "' already exists">>)
                ELSE IF TypeOf(a) = "string" THEN WriteString(g, h, a.key, ValueOrEmpty(a), a.ttl, P)
                ELSE IF TypeOf(a) = "list" THEN Send(g, h, CmdLpush(a.key, CreateElements(a)), "write", P)
                ELSE Err(g, h, <<P, "Unsupported key type: ", TypeOf(a)>>)
           [] h.pc = "write" ->
                IF a.ttl > 0 /\ TypeOf(a) # "string" THEN Send(g, h, CmdExpire(a.key, a.ttl), "expire", P)
                ELSE Ok(g, h, [Result("create") EXCEPT !.key = a.key, !.value = ValueOrEmpty(a), !.items = a.items,
                                                        !.type = TypeOf(a), !.flag = TRUE, !.n = a.ttl])
           [] h.pc = "expire" ->
                Ok(g, h, [Result("create") EXCEPT !.key = a.key, !.value = ValueOrEmpty(a), !.items = a.items,
                                                   !.type = TypeOf(a), !.flag = TRUE, !.n = a.ttl])

\* KeyOperations.dropKey
dropKey(g, h, a) ==
    LET P == "Failed to drop key: " IN
    IF h.pc = "start" /\ Denied(g, {"ALLOW_DROP"}) THEN Err(g, h, <<"Drop key operations are not allowed">>)
    ELSE IF h.pc = "start" /\ BadKey(a.key) THEN Err(g, h, <<"Missing or invalid key parameter">>)
    ELSE IF h.pc \in {"start", "connect"}
    THEN ThenSend(getClient(g, h), Cmd("exists", a.key), "exists", P)
    ELSE IF h.reply.err # <<>> THEN Caught(g, h, P)
    ELSE CASE h.pc = "exists" ->
                IF h.reply.n = 0
                THEN Ok(g, h, [Result("drop") EXCEPT !.key = a.key, !.flag = FALSE])
                ELSE Send(g, h, Cmd("del", a.key), "del", P)
           [] h.pc = "del" ->
                Ok(g, h, [Result("drop") EXCEPT !.key = a.key, !.flag = (h.reply.n > 0), !.n = h.reply.n])

\* KeyOperations.existsKey
existsKey(g, h, a) ==
    LET P == "Failed to check key existence: " IN
    IF h.pc = "start" /\ BadKey(a.key) THEN Err(g, h, <<"Missing or invalid key parameter">>)
    ELSE IF h.pc \in {"start", "connect"}
    THEN ThenSend(getClient(g, h), Cmd("exists", a.key), "exists", P)
    ELSE IF h.reply.err # <<>> THEN Caught(g, h, P)
    ELSE CASE h.pc = "exists" ->
                IF h.reply.n = 0
                THEN Ok(g, h, [Result("exists") EXCEPT !.key = a.key, !.flag = FALSE, !.ttl = "expired"])
                ELSE Send(g, h, Cmd("type", a.key), "type", P)
           [] h.pc = "type" -> Send(g, [h EXCEPT !.t = h.reply.s], Cmd("ttl", a.key), "ttl", P)
           [] h.pc = "ttl" ->
                Ok(g, h, [Result("exists") EXCEPT !.key = a.key, !.flag = TRUE, !.type = h.t,
                                                   !.ttl = TtlText(h.reply.n), !.n = h.reply.n])

\* KeyOperations.getKeyInfo (keys of type string and list); size is 0 in
\* the result of a key that is not found, where the code has null
getKeyInfo(g, h, a) ==
    LET P == "Failed to get key info: " IN
    IF h.pc = "start" /\ BadKey(a.key) THEN Err(g, h, <<"Missing or invalid key parameter">>)
    ELSE IF h.pc \in {"start", "connect"}
    THEN ThenSend(getClient(g, h), Cmd("exists", a.key), "exists", P)
    ELSE IF h.reply.err # <<>> THEN Caught(g, h, P)
    ELSE CASE h.pc = "exists" ->
                IF h.reply.n = 0
                THEN Ok(g, h, [Result("info") EXCEPT !.key = a.key, !.flag = FALSE])
                ELSE Send(g, h, Cmd("type", a.key), "type", P)
           [] h.pc = "type" -> Send(g, [h EXCEPT !.t = h.reply.s], Cmd("ttl", a.key), "ttl", P)
           [] h.pc = "ttl" ->
                IF h.t = "list" THEN Send(g, [h EXCEPT !.n = h.reply.n], Cmd("llen", a.key), "size", P)
                ELSE Send(g, [h EXCEPT !.n = h.reply.n], Cmd("strlen", a.key), "size", P)
           [] h.pc = "size" ->
                Ok(g, h, [Result("info") EXCEPT !.key = a.key, !.flag = TRUE, !.type = h.t,
                                                 !.ttl = TtlText(h.n), !.n = h.n, !.size = h.reply.n])

\* seeded fault: the target's existence not tested
TargetTakenNever(n) == FALSE

\* `if (newKeyExists)`
TargetTaken(n) == n # 0

\* KeyOperations.renameKey
renameKey(g, h, a) ==
    LET P == "Failed to rename key: " IN
    IF h.pc = "start" /\ Denied(g, {"ALLOW_CREATE", "ALLOW_DROP"})
    THEN Err(g, h, <<"Rename operations require both create and drop permissions">>)
    ELSE IF h.pc = "start" /\ BadKey(a.oldKey) THEN Err(g, h, <<"Missing or invalid oldKey parameter">>)
    ELSE IF h.pc = "start" /\ BadKey(a.newKey) THEN Err(g, h, <<"Missing or invalid newKey parameter">>)
    ELSE IF h.pc \in {"start", "connect"}
    THEN ThenSend(getClient(g, h), Cmd("exists", a.oldKey), "exists", P)
    ELSE IF h.reply.err # <<>> THEN Caught(g, h, P)
    ELSE CASE h.pc = "exists" ->
                IF h.reply.n = 0 THEN Err(g, h, <<P, "Source key '", a.oldKey, "' does not exist">>)
                ELSE Send(g, h, Cmd("exists", a.newKey), "exists2", P)
           [] h.pc = "exists2" ->
                IF TargetTaken(h.reply.n) THEN Err(g, h, <<P, "Target key '", a.newKey, "' already exists">>)
                ELSE Send(g, h, CmdRename(a.oldKey, a.newKey), "rename", P)
           [] h.pc = "rename" ->
                Ok(g, h, [Result("rename") EXCEPT !.key = a.oldKey, !.value = a.newKey, !.flag = TRUE])

\* `typeof ttl !== 'number' || ttl <= 0` for a ttl that is a number or absent
BadTtl(ttl) == ttl <= 0

\* KeyOperations.setTTL
setTTL(g, h, a) ==
    LET P == "Failed to set TTL: " IN
    IF h.pc = "start" /\ BadKey(a.key) THEN Err(g, h, <<"Missing or invalid key parameter">>)
    ELSE IF h.pc = "start" /\ BadTtl(a.ttl) THEN Err(g, h, <<"TTL must be a positive number">>)
    ELSE IF h.pc \in {"start", "connect"}
    THEN ThenSend(getClient(g, h), Cmd("exists", a.key), "exists", P)
    ELSE IF h.reply.err # <<>> THEN Caught(g, h, P)
    ELSE CASE h.pc = "exists" ->
                IF h.reply.n = 0 THEN Err(g, h, <<P, "Key '", a.key, "' does not exist">>)
                ELSE Send(g, h, CmdExpire(a.key, a.ttl), "expire", P)
           [] h.pc = "expire" ->
                Ok(g, h, [Result("set_ttl") EXCEPT !.key = a.key, !.n = a.ttl, !.flag = (h.reply.n = 1)])

\* KeyOperations.removeTTL
removeTTL(g, h, a) ==
    LET P == "Failed to remove TTL: " IN
    IF h.pc = "start" /\ BadKey(a.key) THEN Err(g, h, <<"Missing or invalid key parameter">>)
    ELSE IF h.pc \in {"start", "connect"}
    THEN ThenSend(getClient(g, h), Cmd("exists", a.key), "exists", P)
    ELSE IF h.reply.err # <<>> THEN Caught(g, h, P)
    ELSE CASE h.pc = "exists" ->
                IF h.reply.n = 0 THEN Err(g, h, <<P, "Key '", a.key, "' does not exist">>)
                ELSE Send(g, h, Cmd("persist", a.key), "persist", P)
           [] h.pc = "persist" ->
                Ok(g, h, [Result("remove_ttl") EXCEPT !.key = a.key, !.flag = (h.reply.n = 1)])

\* ----------------------------------------------------------- tool wrappers
\* The methods of FinalMCPServer that tools/call reaches: each validates
\* its arguments, runs the operation and rethrows a failure with its prefix.
KeyCheck(g, h, a, r) ==
    IF h.pc = "start" /\ BadKey(a.key) THEN Err(g, h, <<"Missing or invalid key parameter">>) ELSE r

\* the key and value checks at the head of set_data and update_data
KeyValueCheck(g, h, a, r) ==
    IF h.pc = "start" /\ BadKey(a.key) THEN Err(g, h, <<"Missing or invalid key parameter">>)
    ELSE IF h.pc = "start" /\ NoValue(a.value) THEN Err(g, h, <<"Missing value parameter">>)
    ELSE r

get_data(g, h, a) == KeyCheck(g, h, a, Wrap("Failed to get data: ", getData(g, h, a)))

set_data(g, h, a) == KeyValueCheck(g, h, a, Wrap("Failed to set data: ", setData(g, h, a)))

update_data(g, h, a) == KeyValueCheck(g, h, a, Wrap("Failed to update data: ", updateData(g, h, a)))

delete_data(g, h, a) == KeyCheck(g, h, a, Wrap("Failed to delete data: ", deleteData(g, h, a)))

create_key(g, h, a) == KeyCheck(g, h, a, Wrap("Failed to create key: ", createKey(g, h, a)))

drop_key(g, h, a) == KeyCheck(g, h, a, Wrap("Failed to drop key: ", dropKey(g, h, a)))

exists_key(g, h, a) == KeyCheck(g, h, a, Wrap("Failed to check key existence: ", existsKey(g, h, a)))

get_key_info(g, h, a) == KeyCheck(g, h, a, Wrap("Failed to get key info: ", getKeyInfo(g, h, a)))

\* `const { pattern = '*', limit = 100, offset = 0 } = params || {}`
ListDefaults(a) ==
    [a EXCEPT !.pattern = IF @ = Undef THEN "*" ELSE @,
              !.limit = IF @ = Missing THEN Number(100) ELSE @,
              !.offset = IF @ = Missing THEN Number(0) ELSE @]

list_keys(g, h, a) == Wrap("Failed to list keys: ", listKeys(g, h, ListDefaults(a)))

rename_key(g, h, a) ==
    IF h.pc = "start" /\ BadKey(a.oldKey) THEN Err(g, h, <<"Missing or invalid oldKey parameter">>)
    ELSE IF h.pc = "start" /\ BadKey(a.newKey) THEN Err(g, h, <<"Missing or invalid newKey parameter">>)
    ELSE Wrap("Failed to rename key: ", renameKey(g, h, a))

set_ttl(g, h, a) ==
    IF h.pc = "start" /\ BadKey(a.key) THEN Err(g, h, <<"Missing or invalid key parameter">>)
    ELSE IF h.pc = "start" /\ BadTtl(a.ttl) THEN Err(g, h, <<"TTL must be a positive number">>)
    ELSE Wrap("Failed to set TTL: ", setTTL(g, h, a))

remove_ttl(g, h, a) == KeyCheck(g, h, a, Wrap("Failed to remove TTL: ", removeTTL(g, h, a)))

\* FinalMCPServer.closeConnection with RedisConnectionManager.close:
\* the catch of RedisConnectionManager.close
QuitSwallowed(r) == IF r.k = "err" THEN Ok(r.g, r.h, NullResult) ELSE r

\* quit() on the manager's client, a rejection swallowed by close()
\* the catch of RedisConnectionManager.close: a rejection of quit() is
\* swallowed and closeConnection goes on to its log entry
Swallowed(r, rid) ==
    IF r.k = "err" THEN Ok(logRequest(r.g, "connection_closed", TRUE, <<>>, rid), r.h, NullResult) ELSE r

closeConnection(g, h, rid) ==
    IF h.pc = "start" /\ g.client = 0
    THEN Ok(logRequest(g, "connection_closed", TRUE, <<>>, rid), h, NullResult)
    ELSE IF h.pc = "start"
    THEN Swallowed(Send(g, [h EXCEPT !.c = g.client], Cmd("quit", Undef), "quit", ""), rid)
    ELSE Ok(logRequest([g EXCEPT !.isConnected = IF h.reply.err = <<>> THEN FALSE ELSE @],
                       "connection_closed", TRUE, <<>>, rid), h, NullResult)

\* the catch of RedisConnectionManager.testConnection: `return false`
ProbeFailed(r) == IF r.k = "err" THEN Ok(r.g, r.h, [Result("test_connection") EXCEPT !.flag = FALSE]) ELSE r

\* RedisConnectionManager.testConnection: getClient, ping; flag is the
\* boolean returned
testConnection(g, h) ==
    IF h.pc \in {"start", "connect"}
    THEN ProbeFailed(ThenSend(getClient(g, h), Cmd("ping", Undef), "ping", ""))
    ELSE Ok(g, h, [Result("test_connection") EXCEPT !.flag = (h.reply.err = <<>>)])

\* seeded fault: a failed probe thrown instead of returned
ProbedThrown(r) ==
    IF r.k = "ok" /\ ~r.result.flag THEN Err(r.g, r.h, <<"Failed to test connection: ", "Connection test failed">>)
    ELSE r

\* RedisInfo.testConnection and the wrapper test_connection: the result
\* { connected, connection, timestamp }, or { connected: false, error }
\* from the catch
Probed(r) ==
    IF r.k = "err" THEN Ok(r.g, r.h, [Result("test_connection") EXCEPT !.flag = FALSE]) ELSE r

test_connection(g, h, a) == Probed(testConnection(g, h))

\* `const { limit = 50, offset = 0 } = params || {}`
LogsDefaults(a) ==
    [a EXCEPT !.limit = IF @ = Missing THEN Number(50) ELSE @,
              !.offset = IF @ = Missing THEN Number(0) ELSE @]

\* seeded fault: the page taken from the entry after offset
LogsPageShifted(logs, limit, offset) == Slice(logs, offset + 1, offset + 1 + limit)

\* operationLogs.slice(offset, offset + limit)
LogsPage(logs, limit, offset) == Slice(logs, offset, offset + limit)

\* FinalMCPServer.get_operation_logs: items the entries of the page, n the
\* total, flag hasMore
get_operation_logs(g, h, a) ==
    IF BadLimit(LogsDefaults(a).limit, MaxLogsLimit) THEN Err(g, h, <<"limit parameter must be between 1-1000">>)
    ELSE IF BadOffset(LogsDefaults(a).offset)
    THEN Err(g, h, <<"offset parameter must be greater than or equal to 0">>)
    ELSE Ok(g, h, [Result("logs") EXCEPT
                        !.items = LogsPage(g.operationLogs, LogsDefaults(a).limit.v, LogsDefaults(a).offset.v),
                        !.n = Len(g.operationLogs),
                        !.flag = HasMore(LogsDefaults(a).limit.v, LogsDefaults(a).offset.v, Len(g.operationLogs))])

\* ------------------------------------------------------- this[name] lookup
\* the tool methods of the class, the names tools/list can return
ToolMethods ==
    {"get_data", "set_data", "update_data", "delete_data", "list_keys", "create_key", "drop_key", "exists_key", "get_key_info", "rename_key", "set_ttl", "remove_ttl", "get_redis_info", "get_database_stats", "get_memory_info", "test_connection", "get_operation_logs", "check_permissions"}

\* the other functions `this[name]` finds: methods of the class and of
\* Object.prototype
OtherMethods ==
    {"closeConnection", "checkConnectionHealth", "ensureConnection", "handleRequest", "start", "startHealthCheck", "constructor", "toString", "valueOf", "hasOwnProperty"}

\* the instance fields the constructor sets to a truthy value that is not
\* a function; `initialized` is truthy once set
TruthyFields(g) ==
    {"name", "version", "connectionManager", "dataOperations", "keyOperations", "redisInfo", "maxRestarts"}
    \cup (IF g.initialized THEN {"initialized"} ELSE {})

\* what `this[name]` evaluates to: a tool method, another function, a
\* truthy value that cannot be called, or a falsy value
Member(g, name) ==
    IF name \in ToolMethods THEN "tool"
    ELSE IF name \in OtherMethods THEN "function"
    ELSE IF name \in TruthyFields(g) THEN "value"
    ELSE "falsy"

\* `await this[name](args || {})` for the tool methods modelled so far and
\* for closeConnection, a method of the class that is no tool
Invoke(g, h, name, a) ==
    CASE name = "get_data" -> get_data(g, h, a)
      [] name = "set_data" -> set_data(g, h, a)
      [] name = "update_data" -> update_data(g, h, a)
      [] name = "delete_data" -> delete_data(g, h, a)
      [] name = "create_key" -> create_key(g, h, a)
      [] name = "drop_key" -> drop_key(g, h, a)
      [] name = "list_keys" -> list_keys(g, h, a)
      [] name = "exists_key" -> exists_key(g, h, a)
      [] name = "get_key_info" -> get_key_info(g, h, a)
      [] name = "rename_key" -> rename_key(g, h, a)
      [] name = "set_ttl" -> set_ttl(g, h, a)
      [] name = "remove_ttl" -> remove_ttl(g, h, a)
      [] name = "test_connection" -> test_connection(g, h, a)
      [] name = "get_operation_logs" -> get_operation_logs(g, h, a)
      [] name = "closeConnection" -> closeConnection(g, h, <<h.e, h.idx>>)

\* the tools/call branch of handleRequest up to the wrapping of the result
ToolsCall(g, h, req) ==
    IF h.pc # "start" THEN Invoke(g, h, req.name, req.args)
    ELSE IF req.name = Undef \/ req.name = "" THEN Err(g, h, <<"Missing tool name">>)
    ELSE IF Member(g, req.name) = "falsy" THEN Err(g, h, <<"Unknown tool: ", req.name>>)
    ELSE IF Member(g, req.name) = "value" THEN Err(g, h, <<"this[name] is not a function">>)
    ELSE Invoke(g, h, req.name, req.args)

\* ------------------------------------------------------------ dispatcher
\* the id of a response whose id is null
NullId == <<0>>

\* the catch of RedisConnectionManager.testConnection: `return false`
TestFailed(r) == IF r.k = "err" THEN Ok(r.g, r.h, [Result("health") EXCEPT !.flag = FALSE]) ELSE r

\* FinalMCPServer.checkConnectionHealth with
\* RedisConnectionManager.testConnection: flag is the boolean returned
checkConnectionHealth(g, h) ==
    IF h.pc \in {"start", "connect"}
    THEN TestFailed(ThenSend(getClient(g, h), Cmd("ping", Undef), "ping", ""))
    ELSE Ok(g, h, [Result("health") EXCEPT !.flag = (h.reply.err = <<>>)])

\* seeded fault: all five capabilities advertised whatever the client sent
CapabilitiesAll(caps) == <<"tools", "prompts", "resources", "logging", "roots">>

\* the capabilities of the initialize result: tools, then each of the
\* four optional ones for which `params?.capabilities?.key` is truthy
Capabilities(caps) ==
    <<"tools">> \o PushIf(Truthy(caps["prompts"]), "prompts") \o PushIf(Truthy(caps["resources"]), "resources")
    \o PushIf(Truthy(caps["logging"]), "logging") \o PushIf(Truthy(caps["roots"]), "roots")

StubMethods ==
    {"prompts/list", "prompts/call", "resources/list", "resources/read", "logging/list", "logging/read", "roots/list", "roots/read"}

\* the outcome of handleRequest: suspended, halted by process.exit, or
\* returned with out = <<response>>, <<>> when it returned null
Suspended(g, h) == [k |-> "await", g |-> g, h |-> h, out |-> <<>>]

Returned(g, h, out) == [k |-> "done", g |-> g, h |-> h, out |-> out]

Halted(g, h) == [k |-> "halt", g |-> [g EXCEPT !.proc = "exited"], h |-> h, out |-> <<>>]

\* the outer catch of handleRequest: code selection, the 'error' log
\* entry and the error response with request.id
OuterCatch(g, h, req, rid, msg) ==
    Returned(logRequest(g, "error", FALSE, msg, rid), h,
             <<ErrorResponse(rid, req.id, ErrorCode(msg), msg)>>)

\* seeded fault: the finally block does not log a dispatch that threw
ThrownUnlogged(g, h, req, rid, msg) == OuterCatch(g, h, req, rid, msg)

\* inner catch and finally of a dispatch that threw: error = err.message,
\* logRequest(method, params, result, error), rethrow
Thrown(g, h, req, rid, msg) ==
    OuterCatch(logRequest(g, req.method, FALSE, msg, rid), h, req, rid, msg)

\* seeded fault: a response returned for the notification methods too
CompletedAnswered(g, h, req, rid, result) ==
    Returned(logRequest(g, req.method, result.kind # "null" \/ result.wrapped, <<>>, rid), h,
             <<Response(rid, req.id, result)>>)

\* finally and return of a dispatch that completed with result
Completed(g, h, req, rid, result) ==
    LET g1 == logRequest(g, req.method, result.kind # "null" \/ result.wrapped, <<>>, rid) IN
    IF req.method \in {"notifications/initialized", "notifications/exit"}
    THEN Returned(g1, h, <<>>)
    ELSE IF req.method = "shutdown" THEN Returned(g1, h, <<Response(rid, req.id, NullResult)>>)
    ELSE Returned(g1, h, <<Response(rid, req.id, result)>>)

\* the tools/call branch once the tool method has settled: the result is
\* wrapped in {content: [{type: 'text', text: JSON.stringify(result)}]}
Called(r, req, rid) ==
    IF r.k = "await" THEN Suspended(r.g, r.h)
    ELSE IF r.k = "err" THEN Thrown(r.g, r.h, req, rid, r.msg)
    ELSE Completed(r.g, r.h, req, rid, [r.result EXCEPT !.wrapped = TRUE])

\* the shutdown branch after closeConnection: the exit timer is armed
ShutDown(r, req, rid) ==
    IF r.k = "await" THEN Suspended(r.g, r.h)
    ELSE Completed([r.g EXCEPT !.proc = IF @ = "running" THEN "exiting" ELSE @], r.h, req, rid, NullResult)

\* the notifications/initialized branch after checkConnectionHealth
HealthChecked(r, req, rid) ==
    IF r.k = "await" THEN Suspended(r.g, r.h)
    ELSE Completed(IF r.result.flag
                   THEN logRequest(r.g, "redis_connection_test", TRUE, <<>>, rid)
                   ELSE logRequest(r.g, "redis_connection_test", FALSE, <<"Connection test failed">>, rid),
                   r.h, req, rid, NullResult)

\* the notifications/exit branch after closeConnection: process.exit(0)
Exited(r) == IF r.k = "await" THEN Suspended(r.g, r.h) ELSE Halted(r.g, r.h)

\* seeded fault: the version check left out
VersionCheckSkipped(req) == FALSE

\* `jsonrpc !== '2.0'`, the first statement of handleRequest
VersionMismatch(req) == req.jsonrpc # "2.0"

\* seeded fault: the first initialize's side effects run by every initialize
InitializeAgain(g, rid) == logRequest([g EXCEPT !.initialized = TRUE], "initialize", FALSE, <<>>, rid)

\* `if (!this.initialized)`: the flag set and the client information logged
\* (an entry with a null result)
Initialize(g, rid) ==
    IF g.initialized THEN g
    ELSE logRequest([g EXCEPT !.initialized = TRUE], "initialize", FALSE, <<>>, rid)

\* `params?.protocolVersion || '2025-06-18'`
ProtocolVersion(pv) == IF Truthy(pv) /\ pv # "" THEN pv ELSE "2025-06-18"

\* FinalMCPServer.handleRequest for the request the handler is at, run from
\* its start or from the await it was suspended at
handleRequest(g, h) ==
    LET req == h.lines[h.idx]
        rid == <<h.e, h.idx>>
        m == req.method
    IN
    IF h.pc = "start" /\ VersionMismatch(req)
    THEN OuterCatch(logRequest(g, "Unsupported JSON-RPC version", FALSE, <<"Unsupported JSON-RPC version">>, rid),
                    h, req, rid, <<"Unsupported JSON-RPC version">>)
    ELSE IF m = "initialize"
    THEN Completed(Initialize(g, rid), h, req, rid,
                   [Result("initialize") EXCEPT !.names = Capabilities(req.caps),
                                                !.value = ProtocolVersion(req.pv)])
    ELSE IF m = "tools/list"
    THEN Completed(g, h, req, rid, [Result("tools") EXCEPT !.names = ToolsList(g.allow)])
    ELSE IF m \in StubMethods THEN Completed(g, h, req, rid, Result(m))
    ELSE IF m = "tools/call"
    THEN Called(ToolsCall(g, h, req), req, rid)
    ELSE IF m = "ping"
    THEN Completed(logRequest(g, "ping", TRUE, <<>>, rid), h, req, rid, Result("pong"))
    ELSE IF m = "shutdown"
    THEN ShutDown(closeConnection(g, h, rid), req, rid)
    ELSE IF m = "notifications/initialized"
    THEN HealthChecked(checkConnectionHealth(g, h), req, rid)
    ELSE IF m = "notifications/exit"
    THEN Exited(closeConnection(g, h, rid))
    ELSE Thrown(g, h, req, rid, <<"Unknown method: ", m>>)

\* ---------------------------------------------------------- health check
\* seeded fault: isConnected left as it is when quit() is fulfilled
closeStillConnected(g, h) ==
    IF h.pc = "quit" THEN Ok(g, h, NullResult)
    ELSE IF g.client = 0 THEN Ok(g, h, NullResult)
    ELSE QuitSwallowed(Send(g, [h EXCEPT !.c = g.client], Cmd("quit", Undef), "quit", ""))

\* RedisConnectionManager.close: quit() on the manager's client if there is
\* one, isConnected cleared when quit() is fulfilled, its rejection swallowed
close(g, h) ==
    IF h.pc = "quit"
    THEN Ok([g EXCEPT !.isConnected = IF h.reply.err = <<>> THEN FALSE ELSE @], h, NullResult)
    ELSE IF g.client = 0 THEN Ok(g, h, NullResult)
    ELSE QuitSwallowed(Send(g, [h EXCEPT !.c = g.client], Cmd("quit", Undef), "quit", ""))

\* `if (!isHealthy)`
Unhealthy(r) == ~r.result.flag

\* FinalMCPServer.ensureConnection, entered with t = "ensure": the check
\* once more, close() if it fails again
ensureConnection(g, h) ==
    IF h.pc = "quit" THEN close(g, h)
    ELSE IF checkConnectionHealth(g, h).k = "await" THEN checkConnectionHealth(g, h)
    ELSE IF Unhealthy(checkConnectionHealth(g, h))
    THEN close(checkConnectionHealth(g, h).g, [checkConnectionHealth(g, h).h EXCEPT !.pc = "start"])
    ELSE checkConnectionHealth(g, h)

\* the callback startHealthCheck hands to setInterval
healthCheck(g, h) ==
    IF h.t = "ensure" THEN ensureConnection(g, h)
    ELSE IF checkConnectionHealth(g, h).k = "await" THEN checkConnectionHealth(g, h)
    ELSE IF ~checkConnectionHealth(g, h).result.flag
    THEN ensureConnection(checkConnectionHealth(g, h).g,
                          [Handler(h.e, <<>>) EXCEPT !.timer = TRUE, !.t = "ensure"])
    ELSE checkConnectionHealth(g, h)

\* the callback run from its start or from the await it was suspended at
RunTimer(g, h) ==
    IF healthCheck(g, h).k = "await" THEN [g |-> healthCheck(g, h).g, h |-> healthCheck(g, h).h]
    ELSE [g |-> healthCheck(g, h).g, h |-> [healthCheck(g, h).h EXCEPT !.pc = "done"]]

\* ------------------------------------------------------------- transport
\* seeded fault: the parse error answered with the code -32700
ParseErrorAsParseCode(rid) == ErrorResponse(rid, NullId, -32700, <<"Internal error: ", "Unexpected token">>)

\* the response written for a line JSON.parse rejects
ParseError(rid) == ErrorResponse(rid, NullId, -32603, <<"Internal error: ", "Unexpected token">>)

\* the handler moved to its next line, the locals of the finished call dropped
NextLine(h) == [Handler(h.e, h.lines) EXCEPT !.idx = h.idx + 1]

\* The for loop of the stdin 'data' listener, run from the line the handler
\* is at until a call of handleRequest is suspended, the lines are used up
\* or the process has exited: `await handleRequest(request)`, then
\* console.log of the response if there is one.
RECURSIVE RunLines(_, _)
\* seeded fault: the response written only after the lines that follow
Late(s, out) == [g |-> [s.g EXCEPT !.stdout = @ \o out], h |-> s.h]

WrittenLate(r) ==
    IF r.k = "await" \/ r.k = "halt" THEN [g |-> r.g, h |-> r.h]
    ELSE Late(RunLines(r.g, NextLine(r.h)), r.out)

\* `if (response) console.log(JSON.stringify(response))`, then the next line
Written(r) ==
    IF r.k = "await" \/ r.k = "halt" THEN [g |-> r.g, h |-> r.h]
    ELSE RunLines([r.g EXCEPT !.stdout = @ \o r.out], NextLine(r.h))

RunLines(g, h) ==
    IF g.proc = "exited" THEN [g |-> g, h |-> h]
    ELSE IF h.idx > Len(h.lines) THEN [g |-> g, h |-> [h EXCEPT !.pc = "done"]]
    ELSE IF h.lines[h.idx].blank THEN RunLines(g, NextLine(h))
    ELSE IF ~h.lines[h.idx].valid
    THEN RunLines([g EXCEPT !.stdout = Append(@, ParseError(<<h.e, h.idx>>))], NextLine(h))
    ELSE Written(handleRequest(g, h))

\* the lines of a data event as the listener numbers them: a request that
\* carries an id carries one that no other request carries
Stamp(e, batch) ==
    [i \in 1..Len(batch) |-> [batch[i] EXCEPT !.id = IF batch[i].hasId THEN <<e, i>> ELSE <<>>]]

\* the batches of at most max lines drawn from U
Batches(U, max) == UNION {[1..n -> U] : n \in 1..max}

\* the largest number of data events and health checks of a run
MaxHandlers ==
    IF MaxRequests > MaxPermRequests + MaxTicks THEN MaxRequests ELSE MaxPermRequests + MaxTicks

\* the number of lines read by the first n data events
RECURSIVE LinesRead(_)
LinesRead(n) == IF n = 0 THEN 0 ELSE Len(hs[n].lines) + LinesRead(n - 1)

\* the process state a macrotask leaves behind
Commit(g) ==
    /\ initialized' = g.initialized
    /\ client' = g.client
    /\ isConnected' = g.isConnected
    /\ open' = g.open
    /\ pending' = g.pending
    /\ made' = g.made
    /\ store' = g.store
    /\ waitq' = g.waitq
    /\ stdout' = g.stdout
    /\ operationLogs' = g.operationLogs
    /\ proc' = g.proc
    /\ UNCHANGED <<allow, storeUp, outages, launcher>>

\* the state a macrotask of handler e leaves behind
Yield(e, r) == Commit(r.g) /\ hs' = [hs EXCEPT ![e] = r.h]

Running(h) == h.pc \notin {"none", "start", "done"}

\* the handlers ahead of e in the reply queue that wait on e's connection
Ahead(e) ==
    {i \in 1..Len(waitq) : waitq[i] # e /\ hs[waitq[i]].c = hs[e].c
        /\ \A j \in 1..i : waitq[j] # e}

\* waitq without e
Dequeue(q, e) == SelectSeq(q, LAMBDA x : x # e)

\* a suspended invocation run on: the listener's for loop, or the health
\* check's callback
Run(g, h) == IF h.timer THEN RunTimer(g, h) ELSE RunLines(g, h)

\* A stdin 'data' event with lines drawn from U, at most max lines in the
\* run: the listener is called and runs until its first await on I/O or
\* to its end.
Data(U, max) ==
    /\ proc # "exited"
    /\ LinesRead(events) < max
    /\ \E batch \in Batches(U, max - LinesRead(events)) :
          /\ Yield(events + 1, RunLines(G, Handler(events + 1, Stamp(events + 1, batch))))
          /\ events' = events + 1

\* The awaited I/O of handler e settles and the handler runs on: connect()
\* settles; or the store's reply to its command arrives, in the order the
\* commands were sent on the connection; or the connection its queued
\* command waits for is there (the command is sent) or has failed.
Resume(e) ==
    /\ proc # "exited"
    /\ Running(hs[e])
    /\ IF hs[e].queued
       THEN /\ hs[e].c \notin pending
            /\ IF hs[e].c \in open
               THEN Yield(e, Send(G, [hs[e] EXCEPT !.queued = FALSE], hs[e].cmd, hs[e].pc, ""))
               ELSE Yield(e, Run(G, [hs[e] EXCEPT !.queued = FALSE,
                                                   !.reply = Rejected(<<"The client is closed">>)]))
       ELSE /\ hs[e].pc # "connect" => Ahead(e) = {}
            /\ Yield(e, Run([G EXCEPT !.waitq = Dequeue(@, e)], hs[e]))
    /\ UNCHANGED events

\* the health checks begun so far
Ticks == Cardinality({e \in 1..events : hs[e].timer})

\* The interval timer of startHealthCheck fires; the time between two
\* firings (5 minutes) exceeds what a check can take (the connect timeout
\* is 60 seconds), so no check is running.
HealthTimer ==
    /\ proc # "exited"
    /\ Ticks < MaxTicks
    /\ \A e \in 1..events : hs[e].timer => ~Running(hs[e])
    /\ Yield(events + 1, RunTimer(G, [Handler(events + 1, <<>>) EXCEPT !.timer = TRUE]))
    /\ events' = events + 1

\* the timer shutdown arms with setTimeout(..., 100) fires: process.exit(0)
ExitTimer ==
    /\ proc = "exiting"
    /\ proc' = "exited"
    /\ UNCHANGED <<allow, initialized, client, isConnected, open, pending, made, storeUp, outages, store, events, hs, waitq, stdout, operationLogs, launcher>>

\* The store becomes unreachable (every open connection breaks, the
\* clients' 'error' and 'end' listeners clear isConnected) or reachable,
\* at most max times in a run.
Toggle(max) ==
    /\ proc # "exited"
    /\ outages < max
    /\ outages' = outages + 1
    /\ storeUp' = ~storeUp
    /\ open' = IF storeUp THEN {} ELSE open
    /\ isConnected' = IF storeUp /\ open # {} THEN FALSE ELSE isConnected
    /\ hs' = [e \in DOMAIN hs |->
                IF storeUp /\ (\E i \in 1..Len(waitq) : waitq[i] = e)
                THEN [hs[e] EXCEPT !.reply = Rejected(<<"Socket closed unexpectedly">>)]
                ELSE hs[e]]
    /\ UNCHANGED <<allow, initialized, client, pending, made, store, events, waitq, stdout, operationLogs, proc, launcher>>

StoreToggle == Toggle(MaxOutages)

\* The connection of an open handle breaks with commands in flight on it
\* while the store stays reachable: the commands are rejected and the
\* handle's 'error' and 'end' listeners clear the manager's isConnected.
Break ==
    /\ proc # "exited"
    /\ outages < MaxBreaks
    /\ outages' = outages + 1
    /\ \E c \in open :
          /\ \E i \in 1..Len(waitq) : hs[waitq[i]].c = c
          /\ open' = open \ {c}
          /\ hs' = [e \in DOMAIN hs |->
                      IF hs[e].c = c /\ (\E i \in 1..Len(waitq) : waitq[i] = e)
                      THEN [hs[e] EXCEPT !.reply = Rejected(<<"Socket closed unexpectedly">>)]
                      ELSE hs[e]]
    /\ isConnected' = FALSE
    /\ UNCHANGED <<allow, initialized, client, pending, made, storeUp, store, events, waitq, stdout, operationLogs, proc, launcher>>

\* Time passes for a key with an expiry: the store's TTL reply for it drops
\* (to 1, or to 0 when less than half a second is left), and a key in its
\* last half second expires.
Elapse ==
    /\ proc # "exited"
    /\ \E k \in DOMAIN store :
          /\ store[k].ttl >= 0
          /\ Has(store, k)
          /\ \/ \E n \in {1, 0} : n < store[k].ttl /\ store' = [store EXCEPT ![k].ttl = n]
             \/ store[k].ttl = 0 /\ store' = [store EXCEPT ![k] = Absent]
    /\ UNCHANGED <<allow, initialized, client, isConnected, open, pending, made, storeUp, outages, events, hs, waitq, stdout, operationLogs, proc, launcher>>

\* ------------------------------------------------------------- launcher
\* start-server.js once it has run to its end: one spawn() made, the
\* listeners installed
Launched == [status |-> "running", spawned |-> 1, childCode |-> 0, seen |-> FALSE, code |-> 0]

\* the server process ends abnormally: an uncaught exception or unhandled
\* rejection reaches the listeners that call process.exit(1)
Crash ==
    /\ proc # "exited"
    /\ proc' = "exited"
    /\ launcher' = [launcher EXCEPT !.childCode = 1]
    /\ UNCHANGED <<allow, initialized, client, isConnected, open, pending, made, storeUp, outages, store, events, hs, waitq, stdout, operationLogs>>

\* server.on('exit', (code) => { if (code !== 0) process.exit(code) })
ServerExit ==
    /\ proc = "exited"
    /\ launcher.status = "running"
    /\ ~launcher.seen
    /\ launcher' = IF launcher.childCode # 0
                   THEN [launcher EXCEPT !.seen = TRUE, !.status = "exited", !.code = launcher.childCode]
                   ELSE [launcher EXCEPT !.seen = TRUE]
    /\ UNCHANGED <<allow, initialized, client, isConnected, open, pending, made, storeUp, outages, store, events, hs, waitq, stdout, operationLogs, proc>>

\* ------------------------------------------------------------------ init
Keys == {"k1", "k2"}

\* the stores a run starts from
InitStores ==
    {[k \in Keys |-> Absent],
     [k \in Keys |-> IF k = "k1" THEN StrCell("v0", -1) ELSE Absent]}

\* The state once start() has returned: the server_start entry is logged,
\* no client has been created, nothing has been read.  InitLogs starts a
\* run with a log that earlier requests have filled.
InitLogs(flagSets, ups, stores, logs) ==
    /\ allow \in {EnvFlags(off) : off \in flagSets}
    /\ initialized = FALSE
    /\ client = 0
    /\ isConnected = FALSE
    /\ open = {}
    /\ pending = {}
    /\ made = 0
    /\ storeUp \in ups
    /\ outages = 0
    /\ store \in stores
    /\ events = 0
    /\ hs = [e \in 1..MaxHandlers |-> Idle]
    /\ waitq = <<>>
    /\ stdout = <<>>
    /\ operationLogs \in logs
    /\ proc = "running"
    /\ launcher = Launched

InitFrom(flagSets, ups, stores) ==
    InitLogs(flagSets, ups, stores, {<<Entry("server_start", TRUE, <<>>, <<0, 0>>)>>})

InitWith(flagSets, ups) == InitFrom(flagSets, ups, InitStores)

AllOn == {{}}

\* -------------------------------------------------- transport runs (Spec)
\* Requests of every response shape: a synchronous one, one with store
\* round-trips, a notification method sent with an id, shutdown, and a line
\* that is not JSON.  All flags on, store reachable.
TransportLines ==
    {Rpc("ping"), Call("get_data", Args("k1", Undef)), Rpc("notifications/initialized"), Rpc("shutdown"), BadLine}

Init == InitWith(AllOn, {TRUE})

Receive == Data(TransportLines, MaxRequests)

Settle == \E e \in 1..MaxHandlers : Resume(e)

Next == Receive \/ Settle \/ ExitTimer

Spec == Init /\ [][Next]_vars

\* ----------------------------------------------- split lines (PieceSpec)
\* Reads that end inside a line: the pieces of a ping request, next to
\* whole requests.  All flags on, store reachable.
PieceLines ==
    {Rpc("ping"), Piece(Rpc("ping"), "head"), Piece(Rpc("ping"), "tail"), Call("get_data", Args("k1", Undef))}

PieceInit == InitWith(AllOn, {TRUE})

PieceReceive == Data(PieceLines, MaxRequests)

PieceNext == PieceReceive \/ Settle

PieceSpec == PieceInit /\ [][PieceNext]_vars

\* -------------------------------------------------- gate runs (GateSpec)
\* initialize among requests of the other methods, none of which writes to
\* the store or reads the audit log: in a run every such request meets the
\* same store, flags and connection whether it comes before initialize or
\* after it.  The tool names are one of a tool and one that is the name of
\* the flag itself.
GateLines ==
    {Rpc("initialize"), Rpc("ping"), Rpc("tools/list"), Call("get_data", Args("k1", Undef)), Call("initialized", NoArgs)}

GateInit == InitWith(AllOn, {TRUE})

GateReceive == Data(GateLines, MaxRequests)

GateNext == GateReceive \/ Settle

GateSpec == GateInit /\ [][GateNext]_vars

\* ------------------------------------------- permission runs (PermSpec)
\* Every combination of the five flags; tools/list and a call of each
\* guarded operation, set_data also without arguments.
PermLines ==
    {Rpc("tools/list"), Call("set_data", NoArgs), Call("set_data", Args("k1", "v1")), Call("update_data", Args("k1", "v2")), Call("delete_data", Args("k1", Undef)), Call("create_key", Args("k2", Undef)), Call("drop_key", Args("k1", Undef)), Call("rename_key", [NoArgs EXCEPT !.oldKey = "k1", !.newKey = "k2"])}

PermInit == InitWith(SUBSET FlagNames, {TRUE}) /\ Has(store, "k1")

PermReceive == Data(PermLines, MaxPermRequests)

PermNext == PermReceive \/ Settle

PermSpec == PermInit /\ [][PermNext]_vars

\* ---------------------------------------------- version runs (VersionSpec)
\* Requests whose jsonrpc field is '1.0' or absent, of methods that would
\* change the process if dispatched, next to valid requests that initialize
\* the server and open the store connection.
VersionLines ==
    {Rpc("initialize"), Call("get_data", Args("k1", Undef)), Line("1.0", TRUE, "shutdown", Undef, NoArgs), Line(Undef, FALSE, "notifications/exit", Undef, NoArgs), Line("1.0", TRUE, "tools/call", "set_data", Args("k1", "v1")), Line("1.0", TRUE, "initialize", Undef, NoArgs)}

VersionInit == InitWith(AllOn, {TRUE})

VersionReceive == Data(VersionLines, MaxRequests)

VersionNext == VersionReceive \/ Settle

VersionSpec == VersionInit /\ [][VersionNext]_vars

\* ------------------------------------------------ method runs (MethodSpec)
\* Method strings and tool names the server does not know, among them
\* strings that contain the texts the error code selection searches for.
MethodLines ==
    {Rpc("ping"), Rpc("foo"), Rpc("Server not initialized"), Call("nope", NoArgs), Call("Unknown method", NoArgs), Call(Undef, NoArgs), Call("version", NoArgs), Call("closeConnection", NoArgs)}

MethodInit == InitWith(AllOn, {TRUE})

MethodReceive == Data(MethodLines, MaxRequests)

MethodNext == MethodReceive

MethodSpec == MethodInit /\ [][MethodNext]_vars

\* ------------------------------------------------- failure runs (FailSpec)
\* ALLOW_INSERT is 'false', key k1 exists, key k2 does not, and the store
\* can become unreachable: a call of an unknown tool, one that fails
\* validation, a denied one, a conflicting one, one of a missing key and
\* one that fails only when the store does.
FailLines ==
    {Call("nope", NoArgs), Call("get_data", NoArgs), Call("set_data", Args("k1", "v1")), Call("create_key", Args("k1", Undef)), Call("set_ttl", [Args("k2", Undef) EXCEPT !.ttl = 5]), Call("get_data", Args("k1", Undef))}

FailInit == InitWith({{"ALLOW_INSERT"}}, {TRUE}) /\ Has(store, "k1")

FailReceive == Data(FailLines, MaxPermRequests)

FailNext == FailReceive \/ Settle \/ StoreToggle

FailSpec == FailInit /\ [][FailNext]_vars

\* ------------------------------------------- handshake runs (HandshakeSpec)
\* initialize requests: every set of the four capability keys declared with
\* an object value, every key alone with the value false, all four null.
HandshakeCaps ==
    {[k \in CapKeys |-> IF k \in on THEN "object" ELSE Undef] : on \in SUBSET CapKeys}
    \cup {[k \in CapKeys |-> IF k = f THEN "false" ELSE Undef] : f \in CapKeys}
    \cup {[k \in CapKeys |-> Null]}

HandshakeLines == {[Rpc("initialize") EXCEPT !.caps = c] : c \in HandshakeCaps}

HandshakeInit == InitWith(AllOn, {TRUE})

HandshakeReceive == Data(HandshakeLines, MaxPermRequests)

HandshakeNext == HandshakeReceive

HandshakeSpec == HandshakeInit /\ [][HandshakeNext]_vars

\* ------------------------------------------ notification runs (NotifySpec)
\* The two notification methods, with and without an id and with a jsonrpc
\* field that is not '2.0', next to a call that uses the store; the store
\* is reachable or not at the start and can change.
NotifyLines ==
    {Line("2.0", FALSE, "notifications/initialized", Undef, NoArgs), Rpc("notifications/initialized"), Line("2.0", FALSE, "notifications/exit", Undef, NoArgs), Line("1.0", FALSE, "notifications/initialized", Undef, NoArgs), Call("get_data", Args("k1", Undef))}

NotifyInit == InitWith(AllOn, {TRUE, FALSE})

NotifyReceive == Data(NotifyLines, MaxPermRequests)

NotifyNext == NotifyReceive \/ Settle \/ StoreToggle

NotifySpec == NotifyInit /\ [][NotifyNext]_vars

\* ------------------------------------------------- parse runs (ParseSpec)
\* Lines that are not JSON, among them blank ones, between requests that
\* complete at once, that wait on the store and that shut the server down.
ParseLines ==
    {BadLine, BlankLine, Rpc("ping"), Call("get_data", Args("k1", Undef)), Rpc("shutdown")}

ParseInit == InitWith(AllOn, {TRUE})

ParseReceive == Data(ParseLines, MaxRequests)

ParseNext == ParseReceive \/ Settle \/ ExitTimer

ParseSpec == ParseInit /\ [][ParseNext]_vars

\* ----------------------------------------------- create runs (CreateSpec)
\* create_key of a key that exists from the start (k1) and of one that does
\* not (k2), with and without a value and a ttl; nothing deletes a key.
CreateLines ==
    {Call("create_key", Args("k1", "a")), Call("create_key", Args("k2", "a")), Call("create_key", Args("k2", Undef)), Call("create_key", [Args("k2", "b") EXCEPT !.ttl = 5])}

CreateInit == InitWith(AllOn, {TRUE}) /\ Has(store, "k1")

CreateReceive == Data(CreateLines, MaxPermRequests)

CreateNext == CreateReceive \/ Settle

CreateSpec == CreateInit /\ [][CreateNext]_vars

\* ---------------------------------------------------- data runs (DataSpec)
\* Writes, reads, expiry changes and deletions of k1, from a store without
\* keys, one with k2 only, one with k1 and k2, and one where k1 expires in
\* 30 seconds; time passes for the keys that expire.
DataStores ==
    {[k \in Keys |-> Absent],
     [k \in Keys |-> IF k = "k1" THEN Absent ELSE StrCell("w0", -1)],
     [k \in Keys |-> IF k = "k1" THEN StrCell("v0", -1) ELSE StrCell("w0", -1)],
     [k \in Keys |-> IF k = "k1" THEN StrCell("v0", 30) ELSE Absent]}

DataLines ==
    {Call("set_data", Args("k1", "a")), Call("set_data", ListArgs("k1", <<"a", "b">>)), Call("get_data", Args("k1", Undef)), Call("get_data", [Args("k1", "x") EXCEPT !.type = "list", !.ttl = 5]), Call("set_ttl", [Args("k1", Undef) EXCEPT !.ttl = 60]), Call("set_ttl", Args("k1", Undef)), Call("remove_ttl", Args("k1", Undef)), Call("delete_data", Args("k1", Undef))}

DataInit == InitFrom(AllOn, {TRUE}, DataStores)

DataReceive == Data(DataLines, MaxPermRequests)

DataNext == DataReceive \/ Settle \/ Elapse

DataSpec == DataInit /\ [][DataNext]_vars

\* ------------------------------------------ read-only runs (ReadOnlySpec)
\* Calls of tools that the manifest lists when the five flags are false;
\* no time passes, so that the store changes only when a call changes it.
ReadOnlyLines ==
    {Call("get_data", Args("k1", Undef)), Call("exists_key", Args("k1", Undef)), Call("set_ttl", [Args("k1", Undef) EXCEPT !.ttl = 60]), Call("remove_ttl", Args("k1", Undef))}

ReadOnlyInit == InitFrom({FlagNames}, {TRUE}, DataStores)

ReadOnlyReceive == Data(ReadOnlyLines, MaxPermRequests)

ReadOnlyNext == ReadOnlyReceive \/ Settle

ReadOnlySpec == ReadOnlyInit /\ [][ReadOnlyNext]_vars

\* ------------------------------------------- managed runs (ManagedSpec)
\* The server started by start-server.js: it serves requests until it
\* exits, by shutdown or abnormally, and the launcher sees the exit.
ManagedInit == InitWith(AllOn, {TRUE})

ManagedReceive == Data(TransportLines, MaxPermRequests)

ManagedNext == ManagedReceive \/ Settle \/ ExitTimer \/ Crash \/ ServerExit

ManagedSpec == ManagedInit /\ [][ManagedNext]_vars

\* ------------------------------------------------ probe runs (ProbeSpec)
\* test_connection and a read, with a store that is reachable or not at
\* the start and that fails or comes back during the run
ProbeLines == {Call("test_connection", NoArgs), Call("get_data", Args("k1", Undef))}

ProbeInit == InitWith(AllOn, {TRUE, FALSE})

ProbeReceive == Data(ProbeLines, MaxPermRequests)

ProbeNext == ProbeReceive \/ Settle \/ StoreToggle

ProbeSpec == ProbeInit /\ [][ProbeNext]_vars

\* -------------------------------------------------- list runs (ListSpec)
\* Writes of lists to k1, as an array, an empty array or a scalar, from a
\* store without keys and from one where k1 is a list.
ListCell(items) == [type |-> "list", val |-> items, ttl |-> -1]

ListStores ==
    {[k \in Keys |-> Absent],
     [k \in Keys |-> IF k = "k1" THEN ListCell(<<"x", "y">>) ELSE Absent]}

ListLines ==
    {Call("set_data", ListArgs("k1", <<"a", "b">>)), Call("set_data", ListArgs("k1", <<>>)), Call("set_data", [Args("k1", "c") EXCEPT !.type = "list"]), Call("update_data", [Args("k1", ArrayValue) EXCEPT !.ttl = 5]), Call("update_data", Args("k1", "c")), Call("create_key", ListArgs("k1", <<>>)), Call("create_key", [ListArgs("k1", <<"a">>) EXCEPT !.ttl = 5]), Call("get_data", Args("k1", Undef))}

ListInit == InitFrom(AllOn, {TRUE}, ListStores)

ListReceive == Data(ListLines, MaxPermRequests)

ListNext == ListReceive \/ Settle

ListSpec == ListInit /\ [][ListNext]_vars

\* ---------------------------------------------- rename runs (RenameSpec)
\* Renames between k1 and k2 and of k1 onto itself, under every setting of
\* the create and drop flags, from stores that hold neither key, k2 only,
\* or both.
RenameArgs(oldKey, newKey) == [NoArgs EXCEPT !.oldKey = oldKey, !.newKey = newKey]

RenameLines ==
    {Call("rename_key", RenameArgs("k1", "k2")), Call("rename_key", RenameArgs("k2", "k1")), Call("rename_key", RenameArgs("k1", "k1")), Call("get_data", Args("k1", Undef))}

\* the stores of the data runs whose keys do not expire
RenameStores == {st \in DataStores : \A k \in Keys : st[k].ttl < 0}

RenameInit == InitFrom(SUBSET {"ALLOW_CREATE", "ALLOW_DROP"}, {TRUE}, RenameStores)

RenameReceive == Data(RenameLines, MaxPermRequests)

RenameNext == RenameReceive \/ Settle

RenameSpec == RenameInit /\ [][RenameNext]_vars

\* ---------------------------------------------------- info runs (InfoSpec)
\* The three reading tools on one key of a store that nothing changes: no
\* line writes and no time passes, so every answer of a behaviour is about
\* the store the behaviour starts with.
InfoStores == DataStores \cup ListStores

InfoLines ==
    {Call("get_data", Args("k1", Undef)), Call("exists_key", Args("k1", Undef)), Call("get_key_info", Args("k1", Undef))}

InfoInit == InitFrom(AllOn, {TRUE}, InfoStores)

InfoReceive == Data(InfoLines, MaxPermRequests)

InfoNext == InfoReceive \/ Settle

InfoSpec == InfoInit /\ [][InfoNext]_vars

\* ---------------------------------------------------- keys runs (KeysSpec)
\* list_keys over stores that nothing changes: the defaults, a pattern
\* that spells one key, pages of one key at offsets 0 and 1, and a limit,
\* an offset and a pattern that listKeys refuses.
KeysLines ==
    {Call("list_keys", PageArgs(Undef, Missing, Missing)), Call("list_keys", PageArgs("k1", Missing, Missing)), Call("list_keys", PageArgs("*", Number(1), Number(0))), Call("list_keys", PageArgs("*", Number(1), Number(1))), Call("list_keys", PageArgs("*", Number(0), Missing)), Call("list_keys", PageArgs("*", Number(MaxKeysLimit + 1), Missing)), Call("list_keys", PageArgs("*", NotNumber, Missing)), Call("list_keys", PageArgs("*", Missing, Number(-1))), Call("list_keys", PageArgs(NumberValue, Missing, Missing))}

KeysInit == InitFrom(AllOn, {TRUE}, InfoStores)

KeysReceive == Data(KeysLines, MaxPermRequests)

KeysNext == KeysReceive \/ Settle

KeysSpec == KeysInit /\ [][KeysNext]_vars

\* ---------------------------------------------------- logs runs (LogsSpec)
\* The audit log at its start, one entry short of MAX_LOGS and at
\* MAX_LOGS; requests that log one entry (ping), two (an unknown method),
\* one after store round-trips (get_data), and get_operation_logs with its defaults, with pages of one entry at the
\* front and at the back of the window, and with a limit and an offset it
\* refuses.

\* a log of n entries: server_start and the pings of n - 1 earlier requests
Filled(n) ==
    [i \in 1..n |-> IF i = n THEN Entry("server_start", TRUE, <<>>, <<0, 0>>)
                    ELSE Entry("ping", TRUE, <<>>, <<0, n - i>>)]

LogWindows == {Filled(1), Filled(MAX_LOGS - 1), Filled(MAX_LOGS)}

LogsLines ==
    {Rpc("ping"), Rpc("nope"), Call("get_data", Args("k1", Undef)), Call("get_operation_logs", PageArgs(Undef, Missing, Missing)), Call("get_operation_logs", PageArgs(Undef, Number(1), Number(0))), Call("get_operation_logs", PageArgs(Undef, Number(1), Number(MAX_LOGS - 1))), Call("get_operation_logs", PageArgs(Undef, Number(MaxLogsLimit + 1), Missing)), Call("get_operation_logs", PageArgs(Undef, Missing, Number(-1)))}

LogsInit == InitLogs(AllOn, {TRUE}, InitStores, LogWindows)

LogsReceive == Data(LogsLines, MaxPermRequests)

LogsNext == LogsReceive \/ Settle

LogsSpec == LogsInit /\ [][LogsNext]_vars

\* ---------------------------------------------- session runs (SessionSpec)
\* initialize with and without a protocol version and capabilities, among
\* requests of other methods: a synchronous one, tools/list and a call with
\* store round-trips.
SessionLines ==
    {Rpc("initialize"), [Rpc("initialize") EXCEPT !.pv = "2024-11-05", !.caps = [NoCaps EXCEPT !["prompts"] = "object"]], Rpc("ping"), Rpc("tools/list"), Call("get_data", Args("k1", Undef))}

SessionInit == InitWith(AllOn, {TRUE})

SessionReceive == Data(SessionLines, MaxRequests)

SessionNext == SessionReceive \/ Settle

SessionSpec == SessionInit /\ [][SessionNext]_vars

\* ------------------------------------------------ health runs (HealthSpec)
\* A call with two store round-trips on a key the store holds, the health
\* check's timer, and connections that break while they run.
HealthLines == {Call("set_ttl", [Args("k1", Undef) EXCEPT !.ttl = 60])}

HealthInit == InitFrom(AllOn, {TRUE}, {st \in InitStores : Has(st, "k1")})

HealthReceive == Data(HealthLines, MaxPermRequests)

HealthNext == HealthReceive \/ Settle \/ HealthTimer \/ Break

HealthSpec == HealthInit /\ [][HealthNext]_vars

\* ------------------------------------------------ update runs (UpdateSpec)
\* update_data of k1 with a scalar, an object, an empty array and no value,
\* allowed or not, on stores where k1 is absent, a string, a list or a
\* hash; k2 holds a value of its own in each store, so that a store tells
\* which of them the run began with.
HashCell(pairs) == [type |-> "hash", val |-> pairs, ttl |-> -1]

UpdateStores ==
    {[k \in Keys |-> IF k = "k1" THEN Absent ELSE StrCell("w0", -1)],
     [k \in Keys |-> IF k = "k1" THEN StrCell("v0", -1) ELSE StrCell("w1", -1)],
     [k \in Keys |-> IF k = "k1" THEN ListCell(<<"x", "y">>) ELSE StrCell("w2", -1)],
     [k \in Keys |-> IF k = "k1" THEN HashCell(<<<<"f", "u">>>>) ELSE StrCell("w3", -1)]}

UpdateLines ==
    {Call("update_data", Args("k1", "c")), Call("update_data", [Args("k1", ObjectValue) EXCEPT !.items = <<"g", "v">>]), Call("update_data", [Args("k1", ArrayValue) EXCEPT !.ttl = 5]), Call("update_data", Args("k1", Undef))}

UpdateInit == InitFrom(SUBSET {"ALLOW_UPDATE"}, {TRUE}, UpdateStores)

UpdateReceive == Data(UpdateLines, MaxPermRequests)

UpdateNext == UpdateReceive \/ Settle

UpdateSpec == UpdateInit /\ [][UpdateNext]_vars

\* ---------------------------------------------------- reading a run back
\* Requests are named by the data event and the line they were read on.
Rids == {r \in (1..MaxHandlers) \X (1..MaxHandlers) : r[1] <= events /\ r[2] <= Len(hs[r[1]].lines)}

LineOf(r) == hs[r[1]].lines[r[2]]

\* the requests whose handling has ended: their handler has moved past them
Finished == {r \in Rids : hs[r[1]].idx > r[2]}

\* the requests whose handling has begun
Dispatched == {r \in Rids : hs[r[1]].idx > r[2] \/ (hs[r[1]].idx = r[2] /\ Running(hs[r[1]]))}

\* the positions of stdout that answer request r
Answers(r) == {j \in 1..Len(stdout) : stdout[j].rid = r}

\* a well-formed tools/call of the tool name
CallOf(l, name) == l.valid /\ l.jsonrpc = "2.0" /\ l.method = "tools/call" /\ l.name = name

Range(s) == {s[i] : i \in DOMAIN s}

\* --------------------------------------------------------------- C1
UnconditionalTools ==
    {"get_data", "list_keys", "exists_key", "get_key_info", "get_redis_info", "get_database_stats", "get_memory_info", "test_connection", "get_operation_logs", "check_permissions", "set_ttl", "remove_ttl"}

\* the conditional tools the flags of this run enable
EnabledTools ==
    {t \in {"set_data"} : allow["ALLOW_INSERT"]}
    \cup {t \in {"update_data"} : allow["ALLOW_UPDATE"]}
    \cup {t \in {"delete_data"} : allow["ALLOW_DELETE"]}
    \cup {t \in {"create_key"} : allow["ALLOW_CREATE"]}
    \cup {t \in {"drop_key"} : allow["ALLOW_DROP"]}
    \cup {t \in {"rename_key"} : allow["ALLOW_CREATE"] /\ allow["ALLOW_DROP"]}

C2_EveryRequestAnswered ==
    \A r \in Finished :
        LineOf(r).hasId =>
            Cardinality({j \in 1..Len(stdout) : stdout[j].id = LineOf(r).id}) = 1

\* --------------------------------------------------------------- C3
\* r was read before s
Before(r, s) == r[1] < s[1] \/ (r[1] = s[1] /\ r[2] < s[2])

\* C3: the responses on stdout are in the order their requests were read
\* from stdin, however the lines are spread over data events.
C3_ResponsesInReadOrder ==
    \A i, j \in 1..Len(stdout) :
        i < j /\ LineOf(stdout[i].rid).valid /\ LineOf(stdout[j].rid).valid
            => Before(stdout[i].rid, stdout[j].rid)

\* --------------------------------------------------------------- C4
\* a request the server answers with nothing (handleRequest returns null)
Silent(l) == l.valid /\ l.jsonrpc = "2.0" /\ l.method \in {"notifications/initialized", "notifications/exit"}

\* C4: the responses to the requests of one data event are on stdout in
\* request order, and a request of the event is dispatched only when every
\* request before it in the event has been answered.
C4_BatchInOrder ==
    /\ \A i, j \in 1..Len(stdout) :
          i < j /\ stdout[i].rid[1] = stdout[j].rid[1] => stdout[i].rid[2] < stdout[j].rid[2]
    /\ \A r \in Dispatched : \A k \in 1..(r[2] - 1) :
          Answers(<<r[1], k>>) # {} \/ Silent(LineOf(<<r[1], k>>))

\* a data event brought a get_data (store round-trips) and then a ping, and
\* both were answered
C4_Witness ==
    \E e \in 1..events :
        /\ Len(hs[e].lines) >= 2
        /\ CallOf(hs[e].lines[1], "get_data")
        /\ hs[e].lines[2].method = "ping"
        /\ \E i \in Answers(<<e, 1>>) : \E j \in Answers(<<e, 2>>) : i < j /\ stdout[i].result.flag

\* --------------------------------------------------------- C5 and C6
\* the flags that guard a tool
GuardFlags(name) ==
    CASE name = "set_data" -> {"ALLOW_INSERT"}
      [] name = "update_data" -> {"ALLOW_UPDATE"}
      [] name = "delete_data" -> {"ALLOW_DELETE"}
      [] name = "create_key" -> {"ALLOW_CREATE"}
      [] name = "drop_key" -> {"ALLOW_DROP"}
      [] name = "rename_key" -> {"ALLOW_CREATE", "ALLOW_DROP"}
      [] OTHER -> {}

\* a tools/call of an operation one of whose flags is false in this run
DeniedCall(l) ==
    l.valid /\ l.jsonrpc = "2.0" /\ l.method = "tools/call" /\ \E f \in GuardFlags(l.name) : ~allow[f]

\* the fixed message of each operation's permission check
NotAllowedText(name) ==
    CASE name = "set_data" -> "Insert operations are not allowed"
      [] name = "update_data" -> "Update operations are not allowed"
      [] name = "delete_data" -> "Delete operations are not allowed"
      [] name = "create_key" -> "Create key operations are not allowed"
      [] name = "drop_key" -> "Drop key operations are not allowed"
      [] name = "rename_key" -> "Rename operations require both create and drop permissions"

\* a denied call never waits on the store, and once handled it has been
\* answered with an error
C5_DeniedNeverAtStore ==
    /\ \A e \in 1..events : Running(hs[e]) => ~DeniedCall(hs[e].lines[hs[e].idx])
    /\ \A r \in Finished :
          DeniedCall(LineOf(r)) => Answers(r) # {} /\ \A j \in Answers(r) : ~stdout[j].ok

\* a data event that brings only denied calls leaves the store, the reply
\* queue and the connection as they were and writes one error per call
C5_DeniedStep ==
    \A e \in 1..MaxHandlers :
        (events = e - 1 /\ events' = e /\ \A i \in DOMAIN hs'[e].lines : DeniedCall(hs'[e].lines[i]))
        => /\ UNCHANGED <<store, waitq, client, isConnected, open, pending, made>>
           /\ hs'[e].pc = "done"
           /\ Len(stdout') = Len(stdout) + Len(hs'[e].lines)
           /\ \A j \in (Len(stdout) + 1)..Len(stdout') : ~stdout'[j].ok

\* C5: while a flag is false, a tools/call of an operation it guards
\* returns an error and sends no command to the store, whatever its
\* arguments: the store is the same after the call as before.
C5_DeniedCallTouchesNothing == []C5_DeniedNeverAtStore /\ [][C5_DeniedStep]_vars

\* a denied set_data with a valid key and value was answered while the key
\* it names still holds its first value
C5_Witness ==
    \E r \in Finished :
        /\ DeniedCall(LineOf(r)) /\ LineOf(r).name = "set_data" /\ LineOf(r).args.key = "k1"
        /\ \E j \in Answers(r) : ~stdout[j].ok
        /\ store["k1"] = StrCell("v0", -1)

\* C6: a tools/call of a mutating operation whose flag is false fails with
\* that operation's fixed 'not allowed' message whatever its arguments are.
C6_PermissionCheckedFirst ==
    \A j \in 1..Len(stdout) :
        DeniedCall(LineOf(stdout[j].rid)) =>
            /\ ~stdout[j].ok
            /\ NotAllowedText(LineOf(stdout[j].rid).name) \in Range(stdout[j].message)

\* --------------------------------------------------------------- C7
\* a request whose jsonrpc field is not '2.0'
Mismatched(l) == l.valid /\ l.jsonrpc # "2.0"

\* a mismatched request is answered with -32600, is never suspended in a
\* dispatch, leaves no audit entry of its method, and the process runs on
C7_RejectedUndispatched ==
    /\ \A r \in Finished :
          Mismatched(LineOf(r)) =>
              /\ Answers(r) # {}
              /\ \A j \in Answers(r) : ~stdout[j].ok /\ stdout[j].code = -32600
    /\ \A e \in 1..events : Running(hs[e]) => ~Mismatched(hs[e].lines[hs[e].idx])
    /\ \A k \in 1..Len(operationLogs) :
          operationLogs[k].rid \in Rids /\ Mismatched(LineOf(operationLogs[k].rid))
              => operationLogs[k].method \in {"Unsupported JSON-RPC version", "error"}
    /\ proc = "running"

\* a data event that brings only mismatched requests changes neither the
\* initialized flag nor the store nor the connection nor the process
C7_MismatchStep ==
    \A e \in 1..MaxHandlers :
        (events = e - 1 /\ events' = e /\ \A i \in DOMAIN hs'[e].lines : Mismatched(hs'[e].lines[i]))
        => /\ UNCHANGED <<initialized, store, waitq, client, isConnected, open, pending, made, proc>>
           /\ hs'[e].pc = "done"

\* C7: a request whose jsonrpc field is not '2.0' gets an error response
\* with code -32600 and never reaches method dispatch: whatever its method,
\* the initialized flag, the store and the connection are unchanged and the
\* process does not terminate.
C7_VersionMismatchRejected == []C7_RejectedUndispatched /\ [][C7_MismatchStep]_vars

\* a shutdown with jsonrpc '1.0' was answered while the server is
\* initialized and its store connection is open
C7_Witness ==
    \E r \in Finished :
        /\ Mismatched(LineOf(r)) /\ LineOf(r).method = "shutdown"
        /\ \E j \in Answers(r) : stdout[j].code = -32600
        /\ initialized /\ isConnected /\ client \in open /\ proc = "running"

\* --------------------------------------------------------- C8 and C9
SupportedMethods ==
    {"initialize", "tools/list", "tools/call", "prompts/list", "prompts/call", "resources/list", "resources/read", "logging/list", "logging/read", "roots/list", "roots/read", "ping", "shutdown", "notifications/initialized", "notifications/exit"}

\* C8: a request with jsonrpc '2.0' whose method is not one of the fifteen
\* supported names gets an error response with code -32601, for every such
\* method string.
C8_UnknownMethodNotFound ==
    \A j \in 1..Len(stdout) :
        LET l == LineOf(stdout[j].rid) IN
        l.valid /\ l.jsonrpc = "2.0" /\ l.method \notin SupportedMethods
            => ~stdout[j].ok /\ stdout[j].code = -32601

\* C9: a tools/call whose name matches no tool fails with code -32603 and
\* never with -32601, for every unknown tool name.
C9_UnknownToolInternalError ==
    \A j \in 1..Len(stdout) :
        LET l == LineOf(stdout[j].rid) IN
        l.valid /\ l.jsonrpc = "2.0" /\ l.method = "tools/call" /\ Member(G, l.name) = "falsy"
            => ~stdout[j].ok /\ stdout[j].code = -32603

\* -------------------------------------------------------------- C10
\* the calls of the failure runs that fail whatever the store does: unknown
\* tool, missing key, denied, key exists already, key does not exist
FailsAnyway(l) ==
    \/ CallOf(l, "nope")
    \/ CallOf(l, "get_data") /\ BadKey(l.args.key)
    \/ DeniedCall(l)
    \/ CallOf(l, "create_key") /\ Has(store, l.args.key)
    \/ CallOf(l, "set_ttl") /\ ~Has(store, l.args.key)

\* handler e waits on a connect() or a command that the store has failed
StoreFailed(e) ==
    /\ Running(hs[e])
    /\ \/ hs[e].pc = "connect" /\ ~storeUp
       \/ hs[e].pc # "connect" /\ ~hs[e].queued /\ hs[e].reply.err # <<>>
       \/ hs[e].queued /\ hs[e].c \notin pending /\ hs[e].c \notin open

\* the audit entries of request r that carry an error
ErrorEntries(r) ==
    {k \in 1..Len(operationLogs) :
        operationLogs[k].rid = r /\ operationLogs[k].method = "tools/call" /\ operationLogs[k].error # <<>>}

\* every handled call has exactly one response; the calls that must fail
\* have an error response; every error response carries the request's id
\* and has an audit entry with an error; the process runs and no started
\* handler has stopped before its last line
C10_FailuresAnswered ==
    /\ proc = "running"
    /\ \A e \in 1..events : Running(hs[e]) \/ hs[e].pc = "done"
    /\ \A r \in Finished :
          /\ Cardinality(Answers(r)) = 1
          /\ FailsAnyway(LineOf(r)) => \A j \in Answers(r) : ~stdout[j].ok
          /\ \A j \in Answers(r) :
                ~stdout[j].ok => stdout[j].id = LineOf(r).id /\ ErrorEntries(r) # {}

\* when the handler of a call whose connect() or command has failed runs
\* on, it writes the call's error response
C10_StoreFailureStep ==
    \A e \in 1..MaxHandlers :
        (StoreFailed(e) /\ hs'[e] # hs[e] /\ storeUp' = storeUp)
        => \E j \in (Len(stdout) + 1)..Len(stdout') :
              stdout'[j].rid = <<e, hs[e].idx>> /\ ~stdout'[j].ok

\* C10: a tools/call that fails (unknown tool, validation, permission,
\* conflict, not-found, store error) is answered with a JSON-RPC error
\* response and leaves an audit entry with a non-null error; the process
\* does not terminate and the next request is still dispatched and answered.
C10_FailedCallContained == []C10_FailuresAnswered /\ [][C10_StoreFailureStep]_vars

\* a data event brought a get_data that failed on the store and a second
\* call; both were answered and the first left its audit entry
C10_Witness ==
    \E e \in 1..events :
        /\ Len(hs[e].lines) = 2 /\ hs[e].pc = "done"
        /\ CallOf(hs[e].lines[1], "get_data") /\ ~BadKey(hs[e].lines[1].args.key)
        /\ \E j \in Answers(<<e, 1>>) : ~stdout[j].ok
        /\ ErrorEntries(<<e, 1>>) # {}
        /\ Answers(<<e, 2>>) # {}

\* -------------------------------------------------------------- C11
\* the audit entries written by the dispatch of request r
EntriesOf(r) == {k \in 1..Len(operationLogs) : operationLogs[k].rid = r}

\* C11: every dispatch that has returned, whatever its method and whether
\* it succeeded or failed, has added exactly one entry to the audit log.
C11_OneEntryPerDispatch ==
    \A r \in Finished : LineOf(r).valid => Cardinality(EntriesOf(r)) = 1

\* -------------------------------------------------------------- C12
\* the initialize responses on stdout
InitializeAnswers ==
    {j \in 1..Len(stdout) : stdout[j].ok /\ stdout[j].result.kind = "initialize"}

\* C12 as stated: an initialize response advertises tools, and each of the
\* four optional capabilities iff the request declared its key.
C12_AdvertisedIffDeclared ==
    \A j \in InitializeAnswers :
        Range(stdout[j].result.names) =
            {"tools"} \cup {k \in CapKeys : LineOf(stdout[j].rid).caps[k] # Undef}

\* C12 amended: an initialize response advertises tools, and each of the
\* four optional capabilities iff the request's value under its key is
\* truthy; no capability twice.
C12_AdvertisedIffTruthy ==
    \A j \in InitializeAnswers :
        /\ Range(stdout[j].result.names) =
              {"tools"} \cup {k \in CapKeys : Truthy(LineOf(stdout[j].rid).caps[k])}
        /\ Len(stdout[j].result.names) = Cardinality(Range(stdout[j].result.names))

\* an initialize that declared prompts and roots, and nothing else, was
\* answered with tools, prompts and roots
C12_Witness ==
    \E j \in InitializeAnswers :
        /\ LineOf(stdout[j].rid).caps = [k \in CapKeys |-> IF k \in {"prompts", "roots"} THEN "object" ELSE Undef]
        /\ stdout[j].result.names = <<"tools", "prompts", "roots">>

\* -------------------------------------------------------------- C13
\* a well-formed request of the method
RequestOf(l, method) == l.valid /\ l.jsonrpc = "2.0" /\ l.method = method

\* C13: a shutdown request is answered with result null and its id, and
\* the store connection is not closed (quit has not gone out on it) while
\* that response has not been written.
C13_AnsweredBeforeClose ==
    /\ \A r \in Finished :
          RequestOf(LineOf(r), "shutdown") =>
              /\ Answers(r) # {}
              /\ \A j \in Answers(r) :
                    stdout[j].ok /\ stdout[j].result = NullResult /\ stdout[j].id = LineOf(r).id
    /\ \A r \in Dispatched :
          RequestOf(LineOf(r), "shutdown") /\ Answers(r) = {}
              => ~(hs[r[1]].pc = "quit" /\ ~hs[r[1]].queued)

\* -------------------------------------------------------------- C14
NotificationMethods == {"notifications/initialized", "notifications/exit"}

\* C14 as stated: a request whose method is notifications/initialized or
\* notifications/exit yields no output line whatever else it contains, and
\* every parsed line yields at most one output line.
C14_NotificationsSilent ==
    /\ \A j \in 1..Len(stdout) :
          ~(LineOf(stdout[j].rid).valid /\ LineOf(stdout[j].rid).method \in NotificationMethods)
    /\ \A r \in Rids : LineOf(r).valid => Cardinality(Answers(r)) <= 1

\* C14 amended: a request with jsonrpc '2.0' whose method is
\* notifications/initialized or notifications/exit yields no output line,
\* with or without an id and whatever the store's state, and every parsed
\* line yields at most one output line.
C14_WellFormedNotificationsSilent ==
    /\ \A j \in 1..Len(stdout) : ~Silent(LineOf(stdout[j].rid))
    /\ \A r \in Rids : LineOf(r).valid => Cardinality(Answers(r)) <= 1

\* a notifications/initialized whose connection probe failed has been
\* handled: the failure is in the audit log and nothing was written for it
C14_Witness ==
    \E r \in Finished :
        /\ RequestOf(LineOf(r), "notifications/initialized")
        /\ Answers(r) = {}
        /\ \E k \in EntriesOf(r) :
              operationLogs[k].method = "redis_connection_test" /\ operationLogs[k].error # <<>>

\* -------------------------------------------------------------- C15
\* what C15 says of the lines in the set bad: each is answered by exactly
\* one error response with id null and code -32603; the handler never stops
\* at one, the lines that follow it in the same input are handled and
\* answered, and the process leaves the running state only through a
\* shutdown request
MalformedContained(bad) ==
    /\ \A r \in Finished \cap bad :
          /\ Cardinality(Answers(r)) = 1
          /\ \A j \in Answers(r) :
                ~stdout[j].ok /\ stdout[j].id = NullId /\ stdout[j].code = -32603
    /\ \A e \in 1..events : Running(hs[e]) => hs[e].lines[hs[e].idx].valid
    /\ \A e \in 1..events :
          hs[e].pc = "done" =>
              \A i \in 1..Len(hs[e].lines) :
                  Answers(<<e, i>>) # {} \/ Silent(hs[e].lines[i]) \/ hs[e].lines[i].blank
    /\ proc # "running" => \E r \in Finished : RequestOf(LineOf(r), "shutdown")

\* C15 as stated: every input line that is not valid JSON yields exactly
\* one error response with id null and code -32603, the remaining lines are
\* still processed and answered, and the session is not terminated.
C15_MalformedLineAnswered == MalformedContained({r \in Rids : ~LineOf(r).valid})

\* C15 amended: every input line that is not valid JSON and is not blank
\* yields exactly one such error response, a blank line yields nothing, the
\* remaining lines are still processed and answered, and the session is not
\* terminated.
C15_NonBlankMalformedLineAnswered ==
    /\ MalformedContained({r \in Rids : ~LineOf(r).valid /\ ~LineOf(r).blank})
    /\ \A r \in Rids : LineOf(r).blank => Answers(r) = {}

\* a data event brought a malformed line, a blank line and a get_data; the
\* first and the third were answered, the first with the parse error, and
\* the process runs
C15_Witness ==
    \E e \in 1..events :
        /\ Len(hs[e].lines) = 3 /\ hs[e].pc = "done"
        /\ ~hs[e].lines[1].valid /\ ~hs[e].lines[1].blank
        /\ hs[e].lines[2].blank
        /\ CallOf(hs[e].lines[3], "get_data")
        /\ \E i \in Answers(<<e, 1>>) : \E j \in Answers(<<e, 3>>) : i < j /\ stdout[j].ok
        /\ proc = "running"

\* -------------------------------------------------------------- C16
\* the responses to create_key calls of key
CreateAnswers(key) ==
    {j \in 1..Len(stdout) :
        CallOf(LineOf(stdout[j].rid), "create_key") /\ LineOf(stdout[j].rid).args.key = key}

\* C16: with create allowed and no key ever deleted, a create_key of a key
\* that existed from the start fails, and a create_key of a key answered
\* after a successful create_key of the same key fails.
C16_SecondCreateFails ==
    /\ \A j \in CreateAnswers("k1") : ~stdout[j].ok
    /\ \A key \in Keys : \A i, j \in CreateAnswers(key) : i < j /\ stdout[i].ok => ~stdout[j].ok

\* -------------------------------------------------------------- C17
\* the response to request r
AnswerOf(r) == stdout[CHOOSE j \in Answers(r) : TRUE]

\* the line read before request r in its data event
Previous(r) == <<r[1], r[2] - 1>>

\* the finished calls of the tool then that follow, in the only data event
\* read so far, a call of the tool first with the same key
Successive(first, then) ==
    {r \in Finished :
        /\ events = 1
        /\ r[2] > 1
        /\ CallOf(LineOf(Previous(r)), first)
        /\ CallOf(LineOf(r), then)
        /\ LineOf(r).args.key = LineOf(Previous(r)).args.key
        /\ Answers(r) # {}
        /\ Answers(Previous(r)) # {}}

\* r is the last line of its data event
LastLine(r) == r[2] = Len(hs[r[1]].lines)

\* C17: a get_data that follows a successful set_data of the same key with no
\* operation in between reports exists true, the type written and the value
\* written: the same string, or the same list elements in the order given.
C17_ReadsBackWhatWasSet ==
    \A r \in Successive("set_data", "get_data") :
        AnswerOf(Previous(r)).ok =>
            /\ AnswerOf(r).ok
            /\ AnswerOf(r).result.flag
            /\ AnswerOf(r).result.type = TypeOf(LineOf(Previous(r)).args)
            /\ AnswerOf(r).result.value = LineOf(Previous(r)).args.value
            /\ AnswerOf(r).result.items = LineOf(Previous(r)).args.items

\* -------------------------------------------------------------- C18
\* C18: a get_data that follows a successful set_ttl(key, 60) and finds the
\* key reports a number of seconds n with 0 < n <= 60; a set_ttl whose ttl
\* is not positive fails, and a set_ttl of a key that was just deleted fails
\* and leaves the key absent.
C18_TtlWithinBound ==
    /\ \A r \in Successive("set_ttl", "get_data") :
            (AnswerOf(Previous(r)).ok /\ AnswerOf(r).ok /\ AnswerOf(r).result.flag) =>
                /\ AnswerOf(r).result.ttl = "seconds"
                /\ 0 < AnswerOf(r).result.n
                /\ AnswerOf(r).result.n <= LineOf(Previous(r)).args.ttl
    /\ \A r \in Finished :
            (CallOf(LineOf(r), "set_ttl") /\ BadTtl(LineOf(r).args.ttl)) =>
                \A j \in Answers(r) : ~stdout[j].ok
    /\ \A r \in Successive("delete_data", "set_ttl") :
            AnswerOf(Previous(r)).ok =>
                ~AnswerOf(r).ok /\ (LastLine(r) => ~Has(store, LineOf(r).args.key))

\* -------------------------------------------------------------- C19
\* C19: a get_data that follows a successful remove_ttl of the same key with
\* no operation in between finds the key, of type string with the value it
\* had, and reports ttl 'persistent'; a remove_ttl of a key that was just
\* deleted fails.
C19_PersistentAfterRemoveTtl ==
    /\ \A r \in Successive("remove_ttl", "get_data") :
            AnswerOf(Previous(r)).ok =>
                /\ AnswerOf(r).ok
                /\ AnswerOf(r).result.flag
                /\ AnswerOf(r).result.ttl = "persistent"
                /\ AnswerOf(r).result.type = "string"
                /\ AnswerOf(r).result.value = "v0"
    /\ \A r \in Successive("delete_data", "remove_ttl") :
            AnswerOf(Previous(r)).ok => ~AnswerOf(r).ok

\* -------------------------------------------------------------- C20
\* the finished runs of one data event with the one line delete_data(k1)
OnlyDelete ==
    /\ events = 1
    /\ Len(hs[1].lines) = 1
    /\ CallOf(LineOf(<<1, 1>>), "delete_data")
    /\ <<1, 1>> \in Finished
    /\ Answers(<<1, 1>>) # {}

\* C20: with delete allowed and the store reachable, every delete_data is
\* answered with a result, never an error.  A delete_data of a key the
\* store does not hold when the deletion reaches it reports deleted false
\* and leaves the store as it was; a delete_data of a key the store holds
\* then reports deleted true and removes that key and no other.
C20_DeleteReportsWhatItDid ==
    /\ \A r \in Finished : CallOf(LineOf(r), "delete_data") => \A j \in Answers(r) : stdout[j].ok
    /\ OnlyDelete =>
            IF AnswerOf(<<1, 1>>).result.flag
            THEN \E st \in DataStores : Has(st, "k1") /\ store = [st EXCEPT !["k1"] = Absent]
            ELSE \E st \in DataStores : ~Has(st, "k1") /\ store = st
    /\ \A r \in Successive("set_data", "delete_data") :
            AnswerOf(Previous(r)).ok =>
                AnswerOf(r).result.flag /\ (LastLine(r) => ~Has(store, LineOf(r).args.key))
    /\ \A r \in Successive("delete_data", "delete_data") :
            ~AnswerOf(r).result.flag /\ (LastLine(r) => ~Has(store, LineOf(r).args.key))

\* no step of these runs, whose calls all name k1, changes another key
C20_DeleteStep == \A k \in Keys : (\A l \in DataLines : l.args.key # k) => store'[k] = store[k]

C20_DeleteRemovesOnlyItsKey == []C20_DeleteReportsWhatItDid /\ [][C20_DeleteStep]_vars

\* a delete_data alone removed k1 from the store that held k1 and k2
C20_Witness ==
    /\ OnlyDelete
    /\ AnswerOf(<<1, 1>>).result.flag
    /\ ~Has(store, "k1")
    /\ Has(store, "k2")

\* -------------------------------------------------------------- C21
\* the finished runs of one data event with one line, a call of the tool
Only(tool) ==
    /\ events = 1
    /\ Len(hs[1].lines) = 1
    /\ CallOf(LineOf(<<1, 1>>), tool)
    /\ <<1, 1>> \in Finished
    /\ Answers(<<1, 1>>) # {}

\* C21: a get_data that does not find its key reports exists false with
\* value, type and ttl null, whatever else its arguments hold; a get_data
\* that follows the deletion of its key does not find it; and a get_data
\* alone that does not find its key leaves the store without the key and
\* with the other key as it was.
C21_AbsentKeyAllNull ==
    /\ \A j \in 1..Len(stdout) :
            (stdout[j].ok /\ stdout[j].result.kind = "get" /\ ~stdout[j].result.flag) =>
                /\ stdout[j].result.value = Null
                /\ stdout[j].result.type = Null
                /\ stdout[j].result.ttl = Null
                /\ stdout[j].result.items = <<>>
    /\ \A r \in Successive("delete_data", "get_data") :
            AnswerOf(Previous(r)).ok => AnswerOf(r).ok /\ ~AnswerOf(r).result.flag
    /\ (Only("get_data") /\ ~AnswerOf(<<1, 1>>).result.flag) =>
            \E st \in DataStores : ~Has(st, "k1") /\ store = st

\* a get_data that passes a value, a type and a ttl did not find its key
\* in a store that holds the other key
C21_Witness ==
    /\ Only("get_data")
    /\ LineOf(<<1, 1>>).args.type = "list"
    /\ AnswerOf(<<1, 1>>).ok
    /\ ~AnswerOf(<<1, 1>>).result.flag
    /\ Has(store, "k2")

\* -------------------------------------------------------------- C22
\* C22: with the five flags false no call of a listed tool changes the
\* store: no key appears or disappears, no value and no expiry changes.
C22_ReadOnlyModeKeepsStore == [][store' = store]_vars

\* -------------------------------------------------------------- C23
\* "Auto-restart (up to 10 times)"
AutoRestarts == 10

\* C23: the launcher gives up (exits with the server's non-zero code) only
\* once it has restarted the server AutoRestarts times, that is after
\* AutoRestarts + 1 spawns.
C23_GivesUpAfterTenRestarts ==
    (launcher.status = "exited" /\ launcher.code # 0) => launcher.spawned = AutoRestarts + 1

\* -------------------------------------------------------------- C24
\* the responses to the test_connection calls
ProbeAnswers == {j \in 1..Len(stdout) : CallOf(LineOf(stdout[j].rid), "test_connection")}

\* C24: every response to a tools/call of test_connection is a result, not
\* an error, whatever the store did; and every finished test_connection
\* has its response.
C24_ProbeNeverFails ==
    /\ \A j \in ProbeAnswers : stdout[j].ok /\ stdout[j].result.kind = "test_connection"
    /\ \A r \in Finished : CallOf(LineOf(r), "test_connection") => Cardinality(Answers(r)) = 1

\* a test_connection was answered with connected false while the store
\* was unreachable
C24_Witness ==
    \E j \in ProbeAnswers : stdout[j].ok /\ ~stdout[j].result.flag /\ ~storeUp

\* -------------------------------------------------------------- C25
\* the tools/call requests in progress: begun and not finished
CallsInProgress ==
    {r \in Dispatched \ Finished : LineOf(r).valid /\ LineOf(r).method = "tools/call"}

\* C25: at most one tools/call is in progress, and while one is, every
\* request read before it has finished.
C25_OneCallAtATime ==
    /\ Cardinality(CallsInProgress) <= 1
    /\ \A r \in CallsInProgress : \A q \in Rids : Before(q, r) => q \in Finished

\* -------------------------------------------------------------- C26
\* C26: a tools/call without name fails with 'Missing tool name'; a
\* tools/call whose name is not one of the eighteen tool names fails with
\* 'Unknown tool: <name>'.
C26_OnlyToolTableReached ==
    \A j \in 1..Len(stdout) :
        LET l == LineOf(stdout[j].rid) IN
        (l.valid /\ l.jsonrpc = "2.0" /\ l.method = "tools/call") =>
            /\ l.name = Undef => ~stdout[j].ok /\ stdout[j].message = <<"Missing tool name">>
            /\ (l.name # Undef /\ l.name \notin ToolMethods) =>
                    ~stdout[j].ok /\ stdout[j].message = <<"Unknown tool: ", l.name>>

\* -------------------------------------------------------------- C27
\* the finished calls of the tool that are the last line of the only data
\* event read so far
LastOf(tool) ==
    {r \in Finished : events = 1 /\ LastLine(r) /\ CallOf(LineOf(r), tool) /\ Answers(r) # {}}

\* s and t hold the same elements as often, in whatever order
SameElements(s, t) ==
    /\ Len(s) = Len(t)
    /\ \A x \in Range(s) \cup Range(t) :
            Cardinality({i \in DOMAIN s : s[i] = x}) = Cardinality({i \in DOMAIN t : t[i] = x})

\* C27: after a successful set_data of type list the key is a list that
\* holds the given elements (the one given, for a scalar) and nothing of
\* what it held before.
C27_ListReplaced ==
    \A r \in LastOf("set_data") :
        (AnswerOf(r).ok /\ TypeOf(LineOf(r).args) = "list" /\ Elements(LineOf(r).args) # <<>>) =>
            /\ store[LineOf(r).args.key].type = "list"
            /\ SameElements(store[LineOf(r).args.key].val, Elements(LineOf(r).args))

\* -------------------------------------------------------------- C28
\* the value of the call is the empty array
EmptyArray(l) == l.args.value = ArrayValue /\ l.args.items = <<>>

\* C28: a set_data of type list with an empty array succeeds; so do an
\* update_data of a list and a create_key of type list with an empty
\* array (unless the key does not exist, or exists already); after each
\* success the key is the list of the one element ''.
C28_EmptyArrayPlaceholder ==
    /\ \A r \in LastOf("set_data") :
            (EmptyArray(LineOf(r)) /\ TypeOf(LineOf(r).args) = "list") =>
                AnswerOf(r).ok /\ store[LineOf(r).args.key] = ListCell(<<"">>)
    /\ \A r \in LastOf("update_data") :
            (EmptyArray(LineOf(r)) /\ AnswerOf(r).ok /\ AnswerOf(r).result.type = "list") =>
                store[LineOf(r).args.key].val = <<"">> /\ store[LineOf(r).args.key].type = "list"
    /\ \A r \in LastOf("create_key") :
            (EmptyArray(LineOf(r)) /\ TypeOf(LineOf(r).args) = "list") =>
                \/ AnswerOf(r).ok /\ store[LineOf(r).args.key] = ListCell(<<"">>)
                \/ ~AnswerOf(r).ok /\ "' already exists" \in Range(AnswerOf(r).message)

\* -------------------------------------------------------------- C29
\* the store st once key a.oldKey has been renamed to a.newKey
Renamed(st, a) == [st EXCEPT ![a.newKey] = st[a.oldKey], ![a.oldKey] = Absent]

\* while one data event has been read (its lines are handled one after
\* the other), the store changes only by a rename_key, with create and drop
\* allowed, of a key that exists to a key that does not
C29_RenameStep ==
    (events' = 1 /\ store' # store) =>
        LET l == hs[1].lines[hs[1].idx] IN
        /\ CallOf(l, "rename_key")
        /\ allow["ALLOW_CREATE"] /\ allow["ALLOW_DROP"]
        /\ Has(store, l.args.oldKey)
        /\ ~Has(store, l.args.newKey)
        /\ store' = Renamed(store, l.args)

\* a rename_key handled last that succeeded had create and drop allowed and
\* has left the target present and the source absent; a rename_key handled
\* alone that failed has left the store as it was
C29_RenameOutcome ==
    /\ \A r \in LastOf("rename_key") :
            AnswerOf(r).ok =>
                /\ allow["ALLOW_CREATE"] /\ allow["ALLOW_DROP"]
                /\ Has(store, LineOf(r).args.newKey)
                /\ ~Has(store, LineOf(r).args.oldKey)
    /\ (Only("rename_key") /\ ~AnswerOf(<<1, 1>>).ok) => store \in RenameStores

\* C29: handled one at a time, a rename_key succeeds only if create and drop
\* are allowed, the source exists and the target does not; then the target
\* holds what the source held and the source is absent; otherwise it fails
\* and the store is unchanged: no existing key is overwritten.
C29_RenameNeverOverwrites == []C29_RenameOutcome /\ [][C29_RenameStep]_vars

\* a rename_key alone has moved the value of k2 to k1
C29_Witness ==
    /\ Only("rename_key")
    /\ AnswerOf(<<1, 1>>).ok
    /\ store["k1"] = StrCell("w0", -1)
    /\ ~Has(store, "k2")

\* -------------------------------------------------------------- C30
\* the answers of get_data, exists_key and get_key_info
TtlReports ==
    {j \in 1..Len(stdout) : stdout[j].ok /\ stdout[j].result.kind \in {"get", "exists", "info"}}

\* C30: get_data, exists_key and get_key_info report the ttl of a key that
\* expires as its remaining seconds and the ttl of a key that does not
\* expire as 'persistent', and any two of their answers about the same key
\* in the same store, holding the key or not, report the same ttl.
C30_SameTtlReported ==
    /\ \A j \in TtlReports :
            LET r == stdout[j].result IN
            Has(store, r.key) =>
                IF store[r.key].ttl > 0 THEN r.ttl = "seconds" /\ r.n = store[r.key].ttl
                ELSE r.ttl = "persistent"
    /\ \A i, j \in TtlReports :
            stdout[i].result.key = stdout[j].result.key =>
                /\ stdout[i].result.ttl = stdout[j].result.ttl
                /\ stdout[i].result.n = stdout[j].result.n


\* -------------------------------------------------------------- C31
\* the list_keys calls whose limit, offset or pattern listKeys refuses
Refused(l) ==
    /\ CallOf(l, "list_keys")
    /\ \/ ListDefaults(l.args).pattern = NumberValue
       \/ BadLimit(ListDefaults(l.args).limit, MaxKeysLimit)
       \/ BadOffset(ListDefaults(l.args).offset)

\* C31: a list_keys whose limit is in 1..10000, whose offset is not
\* negative and whose pattern is a string answers with total the number of
\* keys of the store that match the pattern, keys the entries offset to
\* offset + limit - 1 of the match list, never more than limit of them, and
\* hasMore true exactly if offset + limit < total; a list_keys with another
\* limit, offset or pattern fails, and when it is the only request of a
\* run no client has been created and no command sent.
C31_ListKeysPage ==
    /\ \A r \in Finished :
            (CallOf(LineOf(r), "list_keys") /\ Answers(r) # {}) =>
                LET a == ListDefaults(LineOf(r).args)
                    res == AnswerOf(r).result
                IN  IF Refused(LineOf(r)) THEN ~AnswerOf(r).ok
                    ELSE /\ AnswerOf(r).ok
                         /\ res.n = Cardinality({k \in Keys : Has(store, k) /\ Matches(a.pattern, k)})
                         /\ res.n = Len(Matching(store, a.pattern))
                         /\ Len(res.names) <= a.limit.v
                         /\ Len(res.names) = Len(res.items)
                         /\ \A i \in 1..Len(res.names) :
                                /\ a.offset.v + i <= res.n
                                /\ res.names[i] = Matching(store, a.pattern)[a.offset.v + i]
                         /\ \A i \in 1..res.n :
                                (a.offset.v < i /\ i <= a.offset.v + a.limit.v) => i - a.offset.v <= Len(res.names)
                         /\ res.flag <=> (a.offset.v + a.limit.v < res.n)
    /\ (Only("list_keys") /\ Refused(LineOf(<<1, 1>>))) => made = 0 /\ client = 0 /\ waitq = <<>>

\* a page of one key that ends the list of two keys; a page of one key
\* that does not; and a refused call alone
C31_Witness ==
    /\ events = 2
    /\ \E r \in Finished :
            /\ AnswerOf(r).ok /\ AnswerOf(r).result.kind = "list"
            /\ AnswerOf(r).result.names = <<"k2">> /\ AnswerOf(r).result.n = 2 /\ ~AnswerOf(r).result.flag
    /\ \E r \in Finished :
            /\ AnswerOf(r).ok /\ AnswerOf(r).result.kind = "list"
            /\ AnswerOf(r).result.names = <<"k1">> /\ AnswerOf(r).result.n = 2 /\ AnswerOf(r).result.flag


\* -------------------------------------------------------------- C32
\* the log after k entries were placed at its front, one after the other
Grown(old, new, k) ==
    /\ Len(new) = (IF Len(old) + k > MAX_LOGS THEN MAX_LOGS ELSE Len(old) + k)
    /\ \A i \in k + 1..Len(new) : new[i] = old[i - k]

\* a step changes the log only by placing entries at its front and
\* dropping the entries pushed past MAX_LOGS, the oldest ones
C32_LogStep ==
    operationLogs' # operationLogs => \E k \in 1..Len(operationLogs') : Grown(operationLogs, operationLogs', k)

\* the log a get_operation_logs alone has read: the log of the run's start
\* that its own entry was placed on
WindowRead(w) == operationLogs = Unshift(w, operationLogs[1])

C32_LogsPage ==
    /\ Len(operationLogs) <= MAX_LOGS
    /\ (Only("get_operation_logs") /\ AnswerOf(<<1, 1>>).ok) =>
            LET a == LogsDefaults(LineOf(<<1, 1>>).args)
                res == AnswerOf(<<1, 1>>).result
            IN  \E w \in LogWindows :
                    /\ WindowRead(w)
                    /\ res.n = Len(w)
                    /\ Len(res.items) <= a.limit.v
                    /\ \A i \in 1..Len(res.items) : res.items[i] = w[a.offset.v + i]
                    /\ \A i \in 1..Len(w) :
                            (a.offset.v < i /\ i <= a.offset.v + a.limit.v) => i - a.offset.v <= Len(res.items)
                    /\ res.flag <=> (a.offset.v + a.limit.v < res.n)

\* C32: the audit log never holds more than 1000 entries; every step that
\* changes it places the new entries at its front, drops the oldest ones
\* past the cap and leaves every other entry as it was; and a
\* get_operation_logs answers with total the size of the log it read, logs
\* the entries offset to offset + limit - 1 of it and hasMore true exactly
\* if offset + limit < total.
C32_LogWindowBounded == []C32_LogsPage /\ [][C32_LogStep]_vars

\* a get_operation_logs alone has read the last entry of a full log, and
\* its own entry has evicted that entry
C32_Witness ==
    /\ Only("get_operation_logs")
    /\ AnswerOf(<<1, 1>>).ok
    /\ AnswerOf(<<1, 1>>).result.items = <<Entry("server_start", TRUE, <<>>, <<0, 0>>)>>
    /\ AnswerOf(<<1, 1>>).result.n = MAX_LOGS
    /\ Len(operationLogs) = MAX_LOGS
    /\ \A i \in 1..Len(operationLogs) : operationLogs[i].method # "server_start"


\* -------------------------------------------------------------- C33
\* the initialize requests handled so far
Initializes == {r \in Finished : LineOf(r).valid /\ LineOf(r).jsonrpc = "2.0" /\ LineOf(r).method = "initialize"}

\* the client-information entries of the log: initialize entries with a
\* null result and no error
ClientInfoEntries ==
    {k \in 1..Len(operationLogs) :
        operationLogs[k].method = "initialize" /\ ~operationLogs[k].result /\ operationLogs[k].error = <<>>}

C33_Initialized ==
    /\ initialized <=> Initializes # {}
    /\ Cardinality(ClientInfoEntries) = (IF initialized THEN 1 ELSE 0)
    /\ \A r \in Initializes :
            /\ Cardinality(Answers(r)) = 1
            /\ AnswerOf(r).ok
            /\ AnswerOf(r).result.kind = "initialize"
            /\ AnswerOf(r).result.value = ProtocolVersion(LineOf(r).pv)
            /\ AnswerOf(r).result.names = Capabilities(LineOf(r).caps)
    /\ \A r, q \in Initializes :
            (LineOf(r).pv = LineOf(q).pv /\ LineOf(r).caps = LineOf(q).caps) =>
                AnswerOf(r).result = AnswerOf(q).result

\* C33: initialized is false until the first initialize is handled and
\* true ever after; every initialize, the first and the later ones, is
\* answered with the protocol version and the capabilities its params
\* call for, the same for the same params; and the client information is
\* logged by the first initialize only.
C33_InitializeOnce == []C33_Initialized /\ [][initialized => initialized']_vars

\* three initialize requests, the first and the third with the same params,
\* have been answered and one client-information entry is in the log
C33_Witness ==
    /\ Cardinality(Initializes) = 3
    /\ \E r, q \in Initializes :
            /\ r # q /\ LineOf(r).pv = LineOf(q).pv /\ LineOf(r).caps = LineOf(q).caps
            /\ LineOf(r).pv = "2024-11-05"
            /\ AnswerOf(r).result = AnswerOf(q).result
    /\ Cardinality(ClientInfoEntries) = 1


\* -------------------------------------------------------------- C34
\* the health checks that have closed the manager's client: quit() was
\* sent and fulfilled
Closers == {e \in 1..events : hs[e].timer /\ hs[e].pc = "done" /\ hs[e].cmd.op = "quit" /\ hs[e].reply.err = <<>>}

\* the invocations suspended at an await
Suspendeds == {e \in 1..events : Running(hs[e])}

\* the awaited I/O of invocation e can settle: Resume(e) is enabled
Resumable(e) ==
    IF hs[e].queued THEN hs[e].c \notin pending
    ELSE hs[e].pc # "connect" => Ahead(e) = {}

\* a request that has been handled has one response, its result or an
\* error of the operation; and while invocations are suspended the
\* awaited I/O of one of them can settle
C34_Answered ==
    /\ \A r \in Finished :
            /\ Cardinality(Answers(r)) = 1
            /\ AnswerOf(r).ok \/ AnswerOf(r).message[1] = "Failed to set TTL: "
    /\ Suspendeds # {} => \E e \in Suspendeds : Resumable(e)

\* a request that arrives when the manager holds no connected client is
\* given a handle created for it
C34_NewHandle ==
    (events' = events + 1 /\ ~hs'[events'].timer /\ ~isConnected) =>
        /\ made' = made + 1
        /\ client' = made'
        /\ hs'[events'].c = made'
        /\ made' \in pending'

\* a health check that closes the client leaves isConnected false
C34_Closed ==
    \A e \in 1..events :
        (hs[e].timer /\ hs[e].pc = "quit" /\ hs'[e].pc = "done" /\ hs[e].reply.err = <<>>) => ~isConnected'

\* C34: with health checks closing the client while requests are in
\* flight, every request handled has exactly one response, its result or an
\* operation-level error; no invocation is left suspended without an I/O
\* that settles; the close leaves the manager without a connected client,
\* and a request that arrives then is served through a handle newly created.
C34_RequestsSurviveClose == []C34_Answered /\ [][C34_NewHandle /\ C34_Closed]_vars

\* a health check has closed the client while a request was in flight:
\* that request was answered with the error of its rejected command, and a
\* request that arrived after the health check began has its result
C34_Witness ==
    \E e \in Closers :
        /\ \E r \in Finished :
                /\ ~AnswerOf(r).ok
                /\ AnswerOf(r).message = <<"Failed to set TTL: ", "Failed to set TTL: ", "The client is closed">>
        /\ \E r \in Finished : r[1] > e /\ AnswerOf(r).ok
        /\ Suspendeds = {}


\* -------------------------------------------------------------- C35
\* C35: an update_data that is the only request of a run and is answered
\* with an error leaves the store as the run found it: k1 absent, or the
\* string, the list or the hash it was.
C35_FailedUpdateKeepsStore ==
    (Only("update_data") /\ ~AnswerOf(<<1, 1>>).ok) => store \in UpdateStores


\* -------------------------------------------------------------- C36
\* the handled requests that create key: a create_key of it, a rename_key
\* onto it
Creators(key) ==
    {r \in Finished :
        /\ Answers(r) # {}
        /\ \/ CallOf(LineOf(r), "create_key") /\ LineOf(r).args.key = key
           \/ CallOf(LineOf(r), "rename_key") /\ LineOf(r).args.newKey = key}

\* C36: where nothing deletes a key, of the create_key and rename_key
\* requests that target the same key at most one succeeds, however their
\* store calls interleave, and no step changes a key that exists.
C36_CheckAndWriteAtomic ==
    /\ [](\A key \in Keys : Cardinality({r \in Creators(key) : AnswerOf(r).ok}) <= 1)
    /\ [][\A key \in Keys : Has(store, key) => store'[key] = store[key]]_vars



\* -------------------------------------------------------------- C37
\* the clients the manager has created whose connection is open or being
\* opened
Live == open \cup pending

\* C37: getClient creates a client only when the manager has no connected
\* one; at most one client created by the manager is live at any time;
\* and whenever isConnected is true the manager's current client is a handle
\* whose connection is open.
C37_OneLiveClient ==
    /\ [](Cardinality(Live) <= 1 /\ (isConnected => client \in open))
    /\ [][made' # made => ~(client # 0 /\ isConnected)]_vars



\* -------------------------------------------------------------- C38
\* the step sends a command to the store: an invocation awaits a reply it
\* was not awaiting before
Issues ==
    \E e \in 1..MaxHandlers :
        /\ Running(hs'[e]) /\ hs'[e].pc # "connect" /\ ~hs'[e].queued
        /\ hs[e].pc # hs'[e].pc \/ hs[e].queued

\* C38: from the moment a shutdown request has been handled (its exit
\* timer is armed) until the process terminates, no data event is
\* dispatched, no command is sent to the store, no client is created and
\* nothing is written to stdout.
C38_QuietAfterShutdown ==
    [][proc = "exiting" =>
          /\ events' = events
          /\ ~Issues
          /\ made' = made
          /\ stdout' = stdout]_vars



\* -------------------------------------------------------------- C39
\* the read of data event e ended inside a request line: its last piece is
\* the head and the first piece of the next event is the tail of the line
SplitAfter(e) ==
    /\ e < events /\ hs[e].lines # <<>> /\ hs[e + 1].lines # <<>>
    /\ hs[e].lines[Len(hs[e].lines)].part = "head"
    /\ hs[e + 1].lines[1].part = "tail"
    /\ [hs[e].lines[Len(hs[e].lines)] EXCEPT !.part = "whole", !.id = <<>>] = [hs[e + 1].lines[1] EXCEPT !.part = "whole", !.id = <<>>]

\* the responses written for the two pieces
PieceAnswers(e) == Answers(<<e, Len(hs[e].lines)>>) \cup Answers(<<e + 1, 1>>)

\* C39: a request line delivered in two pieces by two successive data
\* events is answered exactly once, with the response of the request, not
\* with parse errors of the pieces.
C39_SplitLineJoined ==
    \A e \in 1..MaxHandlers :
        (SplitAfter(e) /\ <<e, Len(hs[e].lines)>> \in Finished /\ <<e + 1, 1>> \in Finished) =>
            /\ Cardinality(PieceAnswers(e)) = 1
            /\ \A j \in PieceAnswers(e) : stdout[j].ok



\* -------------------------------------------------------------- C40
\* the requests, other than initialize, that have been answered
Served == {r \in Finished : LineOf(r).valid /\ ~RequestOf(LineOf(r), "initialize") /\ Answers(r) # {}}

\* what a response says, apart from the id it echoes
Said(j) == [stdout[j] EXCEPT !.rid = <<>>, !.id = <<>>]

\* the same request, apart from its id
SameRequest(l, m) == [l EXCEPT !.id = <<>>] = [m EXCEPT !.id = <<>>]

\* C40: a request other than initialize gets the same response wherever
\* it stands with respect to initialize (two requests that differ in their
\* id only are answered alike, the store, the flags and the connection
\* being the same for both), none is answered 'Server not initialized',
\* and none changes the store differently: these requests leave it as it was.
C40_InitializedGatesNothing ==
    /\ \A r \in Served : \A q \in Served :
          SameRequest(LineOf(r), LineOf(q)) => Said(CHOOSE j \in Answers(r) : TRUE) = Said(CHOOSE j \in Answers(q) : TRUE)
    /\ \A j \in 1..Len(stdout) : stdout[j].code # -32002
    /\ store \in InitStores

====
